---- MODULE Spec2Model ----
(***************************************************************************)
(* Model of the trading engine of src/app.js: DataEngine, RiskManager and  *)
(* TradingEngine (lines 1045-1769).                                        *)
(*                                                                         *)
(* Numbers.  JavaScript numbers are modelled in fixed point:               *)
(*   money        in thousandths of a dollar (10000 $ = 10000000),         *)
(*   prices       in cents,                                                *)
(*   drawdowns    in whole percent,                                        *)
(*   volatility   in hundredths of a percent,                              *)
(* every division truncating toward zero, so that a drawdown d of the code *)
(* and its model value m satisfy d <= -k iff m <= -k for every whole k,    *)
(* which covers every threshold the code compares a drawdown with.         *)
(* NaN and undefined, which the code produces on a manual close, are two   *)
(* reserved values; arithmetic on them yields NaN and every comparison     *)
(* with them is false, as in JS.                                           *)
(* Array indices are 0-based in the code and 1-based here.                 *)
(***************************************************************************)
EXTENDS Integers, Sequences, FiniteSets, TLC

VARIABLES
    now,                \* Date.now(), ms since the engine was constructed + 5000
    price,              \* DataEngine.assets[..].price, per symbol
    indicators,         \* DataEngine.indicators, per symbol
    currentBalance,     \* RiskManager.currentBalance
    dailyStartBalance,  \* RiskManager.dailyStartBalance
    weeklyStartBalance, \* RiskManager.weeklyStartBalance
    monthlyStartBalance,\* RiskManager.monthlyStartBalance
    consecutiveLosses,  \* RiskManager.consecutiveLosses
    tradingEnabled,     \* RiskManager.tradingEnabled
    positions,          \* TradingEngine.positions
    closedTrades,       \* TradingEngine.closedTrades
    isRunning,          \* TradingEngine.isRunning
    analysisState,      \* TradingEngine.analysisState
    fearGreedIndex,     \* TradingEngine.fearGreedIndex
    lastAnalysisTime,   \* TradingEngine.lastAnalysisTime
    pc,                 \* where the in-flight runAnalysisCycle is suspended
    cyc,                \* the locals of the in-flight runAnalysisCycle
    result,             \* the value a runAnalysisCycle call returned and its
                        \* caller has yet to handle; null when there is none
    resetTimers,        \* due times of the pending setTimeout resets
    externalTrades,     \* number of direct recordTrade calls so far
    answer,             \* what the latest direct canTrade(), selectAsset()
                        \* or getStatistics() call returned
    dataEngine          \* a DataEngine constructed on its own, as the
                        \* indicator tests construct one: the candle history
                        \* and the indicators of its first asset, the
                        \* number of its updatePrices calls, and the count
                        \* and the answer of its latest getPriceHistory call

dataVars == <<price, indicators, dataEngine>>
riskVars == <<currentBalance, dailyStartBalance, weeklyStartBalance,
              monthlyStartBalance, consecutiveLosses, tradingEnabled>>
bookVars == <<positions, closedTrades>>
cycleVars == <<analysisState, lastAnalysisTime, pc, cyc, result, resetTimers>>
vars == <<now, price, indicators, currentBalance, dailyStartBalance,
          weeklyStartBalance, monthlyStartBalance, consecutiveLosses,
          tradingEnabled, positions, closedTrades, isRunning, analysisState,
          fearGreedIndex, lastAnalysisTime, pc, cyc, result, resetTimers,
          externalTrades, answer, dataEngine>>

-----------------------------------------------------------------------------
(* JavaScript numbers *)

NaN == 0 - 2000000001
Undefined == 0 - 2000000002

IsNum(x) == x # NaN /\ x # Undefined

Add(a, b) == IF IsNum(a) /\ IsNum(b) THEN a + b ELSE NaN
Lt(a, b) == IsNum(a) /\ IsNum(b) /\ a < b
Le(a, b) == IsNum(a) /\ IsNum(b) /\ a <= b
Gt(a, b) == IsNum(a) /\ IsNum(b) /\ a > b

\* n / d truncated toward zero, d > 0
TruncDiv(n, d) == IF n >= 0 THEN n \div d ELSE 0 - ((0 - n) \div d)

\* a * num / den in fixed point
Scale(a, num, den) == IF IsNum(a) THEN TruncDiv(a * num, den) ELSE NaN

-----------------------------------------------------------------------------
(* Bounds of the model *)

\* the clock moves in steps of ClockStep and stops at MaxTime; with the
\* 5000 ms cadence this bounds the number of cycles that can start (two)
ClockStep == 5000
MaxTime == 10000
\* the longer horizon of the specification SpecSlots (three cycles)
MaxTimeSlots == 15000
\* the clock that moves in steps around the cadence floor stops here
MaxTimeCadence == 15000
\* at most this many direct openPosition calls
MaxOpened == 2
\* at most this many trades in a closed-trade history assigned directly
MaxStatsTrades == 4
\* at most this many updatePrices calls on a DataEngine on its own
MaxDataUpdates == 4
\* at most this many direct recordTrade calls
MaxExternalTrades == 3
\* Math.floor(Math.random() * patterns.length) is drawn from 1..MaxPatternDraw
MaxPatternDraw == 1
\* Math.floor(Math.random() * availableAssets.length) is drawn from
\* 1..MaxAssetDraw (numbers beyond the length of the list fold back into it)
MaxAssetDraw == 1

-----------------------------------------------------------------------------
(* Program constants *)

InitialBalance == 10000000
DailyLossLimit == -3
WeeklyDrawdownLimit == -8
MonthlyKillSwitch == -15
MaxDrawdownAlert == -12
MaxPositions == 2
MinAnalysisGap == 5000
ResetDelay == 2000
ChecklistTotal == 23
ChecklistThreshold == 20
InitialCandles == 100
HistoryCapacity == 100
DefaultCount == 50

Symbols == {"BTC", "ETH", "SOL"}

\* basePrice of each asset, in cents
BasePrice(sym) ==
    CASE sym = "BTC" -> 6500000
      [] sym = "ETH" -> 320000
      [] sym = "SOL" -> 15000

Patterns == <<"Liquidity_Sweep", "Break_of_Block", "Anti_Order_Block",
              "Chain_Block", "Swing_Block", "Impulse_Block">>

Levels == {"level1", "level2", "level3", "level4"}

Waiting == [l \in Levels |-> "waiting"]

-----------------------------------------------------------------------------
(* Inputs: the sample points the random draws are taken from *)

\* asset.price after a burst of generateCandle calls: the base price moved
\* by a multiple of 1 %, never below 70 % of the base price; the draws of
\* one call move the three assets by the same multiple
PriceSteps == {-1, 0, 1}
PriceAt(sym, k) == BasePrice(sym) + TruncDiv(BasePrice(sym) * k, 100)
PriceSamples == {[sym \in Symbols |-> PriceAt(sym, k)] : k \in PriceSteps}

\* indicator snapshots calculateIndicators can produce
IndicatorSamples ==
    { [rsi |-> 50, currentVolume |-> 1200, avgVolume |-> 1000,
       volatility |-> 100, trend |-> "bullish"],
      [rsi |-> 50, currentVolume |-> 800, avgVolume |-> 1000,
       volatility |-> 100, trend |-> "bearish"],
      [rsi |-> 75, currentVolume |-> 1200, avgVolume |-> 1000,
       volatility |-> 100, trend |-> "bullish"] }

\* the indicators of the three assets after one call: the same snapshot
SnapshotSamples == {[sym \in Symbols |-> ind] : ind \in IndicatorSamples}

\* indicator values assigned directly, as the level tests do: the RSI and
\* the volume on either side of the limits of level 1 and on them
GateSamples ==
    { [rsi |-> r, currentVolume |-> v, avgVolume |-> 1000,
       volatility |-> 100, trend |-> "bullish"] :
          r \in {29, 30, 70, 71}, v \in {499, 500} }

\* fearGreedIndex after a burst of updateMarketSentiment calls
SentimentSamples == {15, 50}

\* the draws of one run23PointChecklist call: alignment4 (the alignment draw
\* gives 4, else 2), entryQuality, orderFlow, and the hour of the day
ChecklistDrawSamples ==
    { [alignment4 |-> TRUE, entryQuality |-> TRUE, orderFlow |-> TRUE,
       hour |-> 10],
      [alignment4 |-> FALSE, entryQuality |-> FALSE, orderFlow |-> TRUE,
       hour |-> 10] }

\* the asset and the direction of the positions the tests open directly
TestOpens == {<<"BTC", "LONG">>, <<"ETH", "SHORT">>}

\* the milliseconds Date.now() moves on between two tasks, around the
\* 5000 ms of the cadence test
CadenceSteps == {MinAnalysisGap - 1, MinAnalysisGap}

\* the trades of a closedTrades array assigned directly: those of the
\* statistics test (+50, -30, +40, +60) and one that broke even
StatsTrades ==
    { [finalPnl |-> 50000, symbol |-> "BTC"],
      [finalPnl |-> 0 - 30000, symbol |-> "ETH"],
      [finalPnl |-> 40000, symbol |-> "SOL"],
      [finalPnl |-> 60000, symbol |-> "BTC"],
      [finalPnl |-> 0, symbol |-> "ETH"] }

\* profits passed to recordTrade directly: -50 $, -350 $, -1500 $, +350 $
ExternalProfits == {-50000, -350000, -1500000, 350000}

-----------------------------------------------------------------------------
(* RiskManager *)

\* ((current - start) / start) * 100
Drawdown(current, start) ==
    IF IsNum(current) /\ IsNum(start)
    THEN TruncDiv((current - start) * 100, start)
    ELSE NaN

GetDailyDrawdown == Drawdown(currentBalance, dailyStartBalance)
GetWeeklyDrawdown == Drawdown(currentBalance, weeklyStartBalance)
GetMonthlyDrawdown == Drawdown(currentBalance, monthlyStartBalance)

\* KillSwitchTrips without the monthly test
KillSwitchDailyOnly == Le(GetDailyDrawdown, DailyLossLimit)

\* the drawdown tests of canTrade that clear tradingEnabled
KillSwitchTrips ==
    \/ Le(GetDailyDrawdown, DailyLossLimit)
    \/ Le(GetMonthlyDrawdown, MonthlyKillSwitch)

\* CanTradeValue without the early return on tradingEnabled
CanTradeIgnoringLatch ==
    /\ ~KillSwitchTrips
    /\ ~(consecutiveLosses >= 3)

\* CanTradeValue with the loss streak compared by > instead of >=
CanTradeStreakOffByOne ==
    /\ tradingEnabled
    /\ ~KillSwitchTrips
    /\ ~(consecutiveLosses > 3)

\* the value canTrade() returns in the current state
CanTradeValue ==
    /\ tradingEnabled
    /\ ~KillSwitchTrips
    /\ ~(consecutiveLosses >= 3)

\* tradingEnabled after a canTrade() call in the current state
CanTradeEnabledAfter ==
    IF tradingEnabled /\ KillSwitchTrips THEN FALSE ELSE tradingEnabled

\* PositionSizeOf with the weekly drawdown compared by < instead of <=
PositionSizeStrict(balance, weeklyStart) ==
    LET riskAmount == Scale(balance, 5, 1000)
    IN  IF Lt(Drawdown(balance, weeklyStart), WeeklyDrawdownLimit)
        THEN Scale(riskAmount, 7, 10)
        ELSE riskAmount

\* calculatePositionSize for a given balance and weekly baseline
PositionSizeOf(balance, weeklyStart) ==
    LET riskAmount == Scale(balance, 5, 1000)
    IN  IF Le(Drawdown(balance, weeklyStart), WeeklyDrawdownLimit)
        THEN Scale(riskAmount, 7, 10)
        ELSE riskAmount

CalculatePositionSize == PositionSizeOf(currentBalance, weeklyStartBalance)

\* recordTrade(profit): the new currentBalance
RecordTradeBalance(balance, profit) == Add(balance, profit)

\* RecordTradeLosses without the reset on a profit
RecordTradeLossesNoReset(losses, profit) ==
    IF Lt(profit, 0) THEN losses + 1 ELSE losses

\* recordTrade(profit): the new consecutiveLosses
RecordTradeLosses(losses, profit) ==
    IF Lt(profit, 0) THEN losses + 1 ELSE 0

-----------------------------------------------------------------------------
(* TradingEngine: positions *)

\* a fraction of an entry price, in cents
Part(entry, num, den) == TruncDiv(entry * num, den)

\* NewPosition with the stop-loss and the targets of a LONG for either
\* direction
NewPositionOneSided(sym, direction, pattern) ==
    LET entryPrice == price[sym]
        slippage == Part(entryPrice, 5, 10000)
        actualEntry == IF direction = "LONG" THEN entryPrice + slippage
                                             ELSE entryPrice - slippage
    IN  [ id |-> now,
          slot |-> Len(positions) + 1,
          symbol |-> sym,
          direction |-> direction,
          pattern |-> pattern,
          entryPrice |-> actualEntry,
          stopLoss |-> actualEntry - Part(actualEntry, 1, 100),
          tp1 |-> actualEntry + Part(actualEntry, 5, 1000),
          tp2 |-> actualEntry + Part(actualEntry, 12, 1000),
          size |-> CalculatePositionSize,
          tp1Hit |-> FALSE,
          openTime |-> now,
          pnl |-> 0,
          checklistScore |-> Undefined ]

\* the record openPosition builds (checklistScore is attached by the caller)
NewPosition(sym, direction, pattern) ==
    LET entryPrice == price[sym]
        slippage == Part(entryPrice, 5, 10000)
        actualEntry == IF direction = "LONG" THEN entryPrice + slippage
                                             ELSE entryPrice - slippage
    IN  [ id |-> now,
          slot |-> Len(positions) + 1,
          symbol |-> sym,
          direction |-> direction,
          pattern |-> pattern,
          entryPrice |-> actualEntry,
          stopLoss |-> IF direction = "LONG"
                       THEN actualEntry - Part(actualEntry, 1, 100)
                       ELSE actualEntry + Part(actualEntry, 1, 100),
          tp1 |-> IF direction = "LONG"
                  THEN actualEntry + Part(actualEntry, 5, 1000)
                  ELSE actualEntry - Part(actualEntry, 5, 1000),
          tp2 |-> IF direction = "LONG"
                  THEN actualEntry + Part(actualEntry, 12, 1000)
                  ELSE actualEntry - Part(actualEntry, 12, 1000),
          size |-> CalculatePositionSize,
          tp1Hit |-> FALSE,
          openTime |-> now,
          pnl |-> 0,
          checklistScore |-> Undefined ]

\* ((currentPrice - entryPrice) / entryPrice) * size, mirrored for SHORT;
\* the ratio is kept in units of 0.01 %
MarkToMarket(pos, currentPrice) ==
    LET move == IF pos.direction = "LONG" THEN currentPrice - pos.entryPrice
                                          ELSE pos.entryPrice - currentPrice
        ratio == TruncDiv(move * 10000, pos.entryPrice)
    IN  IF IsNum(pos.size) THEN TruncDiv(ratio * pos.size, 10000) ELSE NaN

\* position.size * 0.5 * 0.005
Tp1Profit(size) == Scale(size, 25, 10000)

\* position.size * 0.5 * 0.012
Tp2Profit(size) == Scale(size, 6, 1000)

Tp1Reached(pos, currentPrice) ==
    \/ pos.direction = "LONG" /\ currentPrice >= pos.tp1
    \/ pos.direction = "SHORT" /\ currentPrice <= pos.tp1

Tp2Reached(pos, currentPrice) ==
    \/ pos.direction = "LONG" /\ currentPrice >= pos.tp2
    \/ pos.direction = "SHORT" /\ currentPrice <= pos.tp2

StopReached(pos, currentPrice) ==
    \/ pos.direction = "LONG" /\ currentPrice <= pos.stopLoss
    \/ pos.direction = "SHORT" /\ currentPrice >= pos.stopLoss

\* finalPnl of closePosition
FinalPnl(pos, reason) ==
    CASE reason = "TP2" -> Tp2Profit(pos.size)
      [] reason = "SL" -> MarkToMarket(pos, price[pos.symbol])
      [] OTHER -> Undefined

\* the ClosedTrade closePosition appends
ClosedTrade(pos, reason) ==
    [ id |-> pos.id, slot |-> pos.slot, symbol |-> pos.symbol,
      direction |-> pos.direction, pattern |-> pos.pattern,
      entryPrice |-> pos.entryPrice, stopLoss |-> pos.stopLoss,
      tp1 |-> pos.tp1, tp2 |-> pos.tp2, size |-> pos.size,
      tp1Hit |-> pos.tp1Hit, openTime |-> pos.openTime, pnl |-> pos.pnl,
      checklistScore |-> pos.checklistScore,
      closePrice |-> price[pos.symbol], closeTime |-> now,
      closeReason |-> reason, finalPnl |-> FinalPnl(pos, reason) ]

\* positions.splice(index, 1)
Splice(seq, index) ==
    [i \in 1..(Len(seq) - 1) |-> IF i < index THEN seq[i] ELSE seq[i + 1]]

\* the part of the engine a tick or a close works on
Book == [ positions |-> positions, closedTrades |-> closedTrades,
          balance |-> currentBalance, losses |-> consecutiveLosses,
          thrown |-> FALSE ]

\* riskManager.recordTrade(profit) on a book
Recorded(book, profit) ==
    [book EXCEPT !.balance = RecordTradeBalance(book.balance, profit),
                 !.losses = RecordTradeLosses(book.losses, profit)]

\* ClosePosition without positions.splice(index, 1)
ClosePositionKeeps(book, index, reason) ==
    IF index > Len(book.positions)
    THEN [book EXCEPT !.thrown = TRUE]
    ELSE LET pos == book.positions[index]
             rec == Recorded(book, FinalPnl(pos, reason))
         IN  [rec EXCEPT !.closedTrades = Append(book.closedTrades,
                                                 ClosedTrade(pos, reason))]

\* ClosePosition without closedTrades.push: the position leaves the book
\* unrecorded
ClosePositionUnrecorded(book, index, reason) ==
    IF index > Len(book.positions)
    THEN [book EXCEPT !.thrown = TRUE]
    ELSE LET pos == book.positions[index]
             rec == Recorded(book, FinalPnl(pos, reason))
         IN  [rec EXCEPT !.positions = Splice(book.positions, index)]

\* closePosition(index, reason); reading positions[index] beyond the array
\* throws a TypeError
ClosePosition(book, index, reason) ==
    IF index > Len(book.positions)
    THEN [book EXCEPT !.thrown = TRUE]
    ELSE LET pos == book.positions[index]
             rec == Recorded(book, FinalPnl(pos, reason))
         IN  [rec EXCEPT !.closedTrades = Append(book.closedTrades,
                                                 ClosedTrade(pos, reason)),
                         !.positions = Splice(book.positions, index)]

\* VisitPosition with the tp1 branch taken whether or not tp1Hit is set
VisitPositionRepeatsTp1(book, index) ==
    LET pos0 == book.positions[index]
        currentPrice == price[pos0.symbol]
        pos1 == [pos0 EXCEPT !.pnl = MarkToMarket(pos0, currentPrice)]
        hitsTp1 == Tp1Reached(pos1, currentPrice)
        pos2 == IF hitsTp1
                THEN [pos1 EXCEPT !.tp1Hit = TRUE, !.stopLoss = pos1.entryPrice]
                ELSE pos1
        book1 == [book EXCEPT !.positions[index] = pos2]
        book2 == IF hitsTp1 THEN Recorded(book1, Tp1Profit(pos2.size))
                            ELSE book1
        book3 == IF Tp2Reached(pos2, currentPrice)
                 THEN ClosePosition(book2, index, "TP2")
                 ELSE book2
    IN  IF ~book3.thrown /\ StopReached(pos2, currentPrice)
        THEN ClosePosition(book3, index, "SL")
        ELSE book3

\* the forEach callback of updatePositions for the position at index
VisitPosition(book, index) ==
    LET pos0 == book.positions[index]
        currentPrice == price[pos0.symbol]
        pos1 == [pos0 EXCEPT !.pnl = MarkToMarket(pos0, currentPrice)]
        hitsTp1 == ~pos1.tp1Hit /\ Tp1Reached(pos1, currentPrice)
        pos2 == IF hitsTp1
                THEN [pos1 EXCEPT !.tp1Hit = TRUE, !.stopLoss = pos1.entryPrice]
                ELSE pos1
        book1 == [book EXCEPT !.positions[index] = pos2]
        book2 == IF hitsTp1 THEN Recorded(book1, Tp1Profit(pos2.size))
                            ELSE book1
        book3 == IF Tp2Reached(pos2, currentPrice)
                 THEN ClosePosition(book2, index, "TP2")
                 ELSE book2
    IN  IF ~book3.thrown /\ StopReached(pos2, currentPrice)
        THEN ClosePosition(book3, index, "SL")
        ELSE book3

\* positions.forEach: the indices below the length at the start are visited
\* in order, those no longer in the array are skipped
RECURSIVE ForEachPosition(_, _, _)
ForEachPosition(book, index, len) ==
    IF index > len \/ book.thrown THEN book
    ELSE IF index > Len(book.positions)
         THEN ForEachPosition(book, index + 1, len)
         ELSE ForEachPosition(VisitPosition(book, index), index + 1, len)

\* the book after updatePositions()
Ticked == ForEachPosition(Book, 1, Len(positions))

\* a JavaScript number and a JavaScript string, told apart by ===
JsNumber(text) == [type |-> "number", text |-> text]
JsString(text) == [type |-> "string", text |-> text]

\* ((num / den) * 100).toFixed(1): the nearest multiple of 0.1, the larger
\* one of two equally near, written with one decimal
ToFixed1(num, den) ==
    LET tenths == (2000 * num + den) \div (2 * den)
    IN  JsString(ToString(tenths \div 10) \o "." \o ToString(tenths % 10))

\* WinsOf with t.finalPnl >= 0 for t.finalPnl > 0
WinsOrEven(trades) ==
    Cardinality({i \in 1..Len(trades) :
                    IsNum(trades[i].finalPnl) /\ trades[i].finalPnl >= 0})

\* closedTrades.filter(t => t.finalPnl > 0).length
WinsOf(trades) ==
    Cardinality({i \in 1..Len(trades) : Gt(trades[i].finalPnl, 0)})

\* getStatistics(): totalTrades and winRate of what it returns
GetStatistics ==
    IF Len(closedTrades) = 0
    THEN [totalTrades |-> 0, winRate |-> JsNumber("0")]
    ELSE [totalTrades |-> Len(closedTrades),
          winRate |-> ToFixed1(WinsOf(closedTrades), Len(closedTrades))]

\* dataEngine.assets, in order
Assets == <<"BTC", "ETH", "SOL">>

\* pos => pos.symbol === asset.symbol, for some position
InPositions(sym) == \E i \in 1..Len(positions) : positions[i].symbol = sym

\* selectAsset: assets.filter(...) over the first n assets, in order
RECURSIVE AvailableAmong(_)
AvailableAmong(n) ==
    IF n = 0 THEN <<>>
    ELSE IF InPositions(Assets[n]) THEN AvailableAmong(n - 1)
    ELSE Append(AvailableAmong(n - 1), Assets[n])

\* AvailableAssets without the filter on the open positions
AllAssets == Assets

\* selectAsset: the assets not currently in positions
AvailableAssets == AvailableAmong(Len(Assets))

\* selectAsset: availableAssets[Math.floor(Math.random() * length)]
SelectAsset(draw) ==
    AvailableAssets[((draw - 1) % Len(AvailableAssets)) + 1]

-----------------------------------------------------------------------------
(* TradingEngine: the four levels and the checklist *)

Pass == [passed |-> TRUE, reason |-> ""]
Fail(reason) == [passed |-> FALSE, reason |-> reason]

\* Level1SafetyGates rejecting an RSI on the limits 30 and 70 as well
Level1RejectsLimits(sym) ==
    LET ind == indicators[sym]
    IN  IF ind.rsi <= 30 \/ ind.rsi >= 70
        THEN Fail("RSI outside safe range")
        ELSE IF ind.currentVolume * 10 < ind.avgVolume * 5
        THEN Fail("Insufficient volume")
        ELSE IF consecutiveLosses >= 3
        THEN Fail("Max consecutive losses reached")
        ELSE IF Le(GetDailyDrawdown, DailyLossLimit)
        THEN Fail("Daily loss limit reached")
        ELSE IF Le(GetMonthlyDrawdown, MaxDrawdownAlert)
        THEN Fail("Max drawdown alert triggered")
        ELSE Pass

\* level1SafetyGates(asset)
Level1SafetyGates(sym) ==
    LET ind == indicators[sym]
    IN  IF ind.rsi < 30 \/ ind.rsi > 70
        THEN Fail("RSI outside safe range")
        ELSE IF ind.currentVolume * 10 < ind.avgVolume * 5
        THEN Fail("Insufficient volume")
        ELSE IF consecutiveLosses >= 3
        THEN Fail("Max consecutive losses reached")
        ELSE IF Le(GetDailyDrawdown, DailyLossLimit)
        THEN Fail("Daily loss limit reached")
        ELSE IF Le(GetMonthlyDrawdown, MaxDrawdownAlert)
        THEN Fail("Max drawdown alert triggered")
        ELSE Pass

\* Level2Direction with LONG whatever the trend
Level2DirectionLong(sym) == "LONG"

\* level2StructuralAnalysis(asset): the direction it derives
Level2Direction(sym) ==
    IF indicators[sym].trend = "bullish" THEN "LONG" ELSE "SHORT"

\* level2StructuralAnalysis(asset), aligned: alignmentScore >= 0.4
Level2StructuralAnalysis(aligned) ==
    IF ~aligned THEN Fail("Insufficient timeframe alignment") ELSE Pass

\* level3RiskAssessment, goodSignal: signalQuality >= 0.5; the risk/reward
\* ratio is the fixed 2.5, in tenths
RiskRewardRatio == 25
Level3RiskAssessment(goodSignal) ==
    IF RiskRewardRatio < 20 THEN Fail("Risk/Reward ratio too low")
    ELSE IF ~goodSignal THEN Fail("Entry signal quality insufficient")
    ELSE Pass

\* level4SentimentCheck()
Level4SentimentCheck ==
    IF fearGreedIndex < 20 \/ fearGreedIndex > 80
    THEN Fail("Extreme market sentiment")
    ELSE Pass

\* positions.reduce((sum, pos) => sum + pos.size, 0)
RECURSIVE SumSizes(_, _)
SumSizes(seq, n) ==
    IF n = 0 THEN 0 ELSE Add(SumSizes(seq, n - 1), seq[n].size)

\* the 23 checks of run23PointChecklist, in order, for given draws
ChecklistChecks(sym, draws) ==
    LET ind == indicators[sym]
        alignmentScore == IF draws.alignment4 THEN 4 ELSE 2
        hour == draws.hour
    IN  << ind.rsi >= 30 /\ ind.rsi <= 70,
           ind.currentVolume >= ind.avgVolume,
           consecutiveLosses < 2,
           Gt(GetDailyDrawdown, -3),
           Gt(GetMonthlyDrawdown, -12),
           ind.volatility > 50 /\ ind.volatility < 500,
           0 < alignmentScore,
           1 < alignmentScore,
           2 < alignmentScore,
           3 < alignmentScore,
           TRUE,
           TRUE,
           TRUE,
           draws.entryQuality,
           TRUE,
           draws.orderFlow,
           TRUE,
           TRUE,
           TRUE,
           TRUE,
           Lt(SumSizes(positions, Len(positions)), Scale(currentBalance, 7, 10)),
           (hour >= 13 /\ hour <= 20) \/ (hour >= 7 /\ hour <= 12),
           fearGreedIndex >= 25 /\ fearGreedIndex <= 75 >>

\* the score of a list of checks
ChecklistScore(checks) ==
    Cardinality({i \in 1..Len(checks) : checks[i]})

\* ChecklistPassed with the threshold one point lower
ChecklistPassedAtNineteen(score) == score >= ChecklistThreshold - 1

ChecklistPassed(score) == score >= ChecklistThreshold

-----------------------------------------------------------------------------
(* The candle history of a DataEngine, for its first asset (forEach treats *)
(* the three alike).  A candle keeps its time and its close; its open,     *)
(* high, low and volume, which neither the history nor the RSI nor the     *)
(* moving averages read, are left out.  The RSI is in hundredths of a      *)
(* point, rounded; the moving averages are in sixty-thirds of a cent,      *)
(* which both periods divide, so they are exact.                           *)

FirstAsset == Assets[1]

\* asset.basePrice * 0.7
PriceFloor(sym) == TruncDiv(BasePrice(sym) * 7, 10)

\* the change generateCandle draws for one candle: within the 0.2 % of the
\* price its two draws span
CandleChanges == {-10000, 0, 10000}

\* the changes the constructor's hundred generateCandle calls draw: the
\* first of the pair for the odd candles, the second for the even ones
ConstructionDraws ==
    {<<0, 0>>, <<1000, 1000>>, <<-1000, -1000>>, <<3000, -1000>>,
     <<-3000, 1000>>}

\* the counts getPriceHistory is called with
CountSamples == {0, 1, DefaultCount, HistoryCapacity, HistoryCapacity + 1}

\* generateCandle(asset), asset.price being lastPrice and Date.now() time
GenerateCandle(sym, lastPrice, change, time) ==
    [time |-> time,
     close |-> IF lastPrice + change >= PriceFloor(sym)
               THEN lastPrice + change ELSE PriceFloor(sym)]

\* push(newCandle) and no shift(): the history grows without bound
PushCandleUnbounded(history, candle) == Append(history, candle)

\* push(newCandle), then shift() when the history holds more than 100
PushCandle(history, candle) ==
    LET pushed == Append(history, candle)
    IN  IF Len(pushed) > HistoryCapacity THEN Tail(pushed) ELSE pushed

\* the loop of calculateRSI over history[i .. last]: the sum of the rises
RECURSIVE Gains(_, _, _)
Gains(history, i, last) ==
    IF i > last THEN 0
    ELSE LET change == history[i].close - history[i - 1].close
         IN  (IF change > 0 THEN change ELSE 0) + Gains(history, i + 1, last)

\* the loop of calculateRSI over history[i .. last]: the sum of the falls
RECURSIVE Losses(_, _, _)
Losses(history, i, last) ==
    IF i > last THEN 0
    ELSE LET change == history[i].close - history[i - 1].close
         IN  (IF change > 0 THEN 0 ELSE 0 - change)
             + Losses(history, i + 1, last)

\* n / d rounded to the nearest whole, n >= 0 and d > 0
RoundDiv(n, d) == (n + d \div 2) \div d

\* calculateRSI with 0 where it returns 100 for a window without losses
CalculateRSIZeroWithoutLoss(history, period) ==
    IF Len(history) < period + 1 THEN 5000
    ELSE LET first == Len(history) - period + 1
             gains == Gains(history, first, Len(history))
             losses == Losses(history, first, Len(history))
         IN  IF losses = 0 THEN 0
             ELSE 10000 - RoundDiv(10000 * losses, gains + losses)

\* calculateRSI(history, period): avgGain / avgLoss is gains / losses, and
\* 100 / (1 + gains / losses) is 100 * losses / (gains + losses)
CalculateRSI(history, period) ==
    IF Len(history) < period + 1 THEN 5000
    ELSE LET first == Len(history) - period + 1
             gains == Gains(history, first, Len(history))
             losses == Losses(history, first, Len(history))
         IN  IF losses = 0 THEN 10000
             ELSE 10000 - RoundDiv(10000 * losses, gains + losses)

RECURSIVE SumCloses(_, _, _)
SumCloses(history, i, last) ==
    IF i > last THEN 0
    ELSE history[i].close + SumCloses(history, i + 1, last)

\* calculateMA(history, period), period dividing 63
CalculateMA(history, period) ==
    IF Len(history) < period THEN 63 * history[Len(history)].close
    ELSE (63 \div period)
         * SumCloses(history, Len(history) - period + 1, Len(history))

\* calculateIndicators(symbol): what indicators[symbol] is after it
CalculateIndicators(history, old) ==
    IF Len(history) < 21 THEN old
    ELSE LET ma9 == CalculateMA(history, 9)
             ma21 == CalculateMA(history, 21)
         IN  [rsi |-> CalculateRSI(history, 14), ma9 |-> ma9, ma21 |-> ma21,
              trend |-> IF ma9 > ma21 THEN "bullish" ELSE "bearish"]

\* Array.prototype.slice(start): a negative start counts from the end
Slice(seq, start) ==
    LET len == Len(seq)
        from == IF start < 0
                THEN (IF len + start > 0 THEN len + start ELSE 0)
                ELSE (IF start < len THEN start ELSE len)
    IN  SubSeq(seq, from + 1, len)

\* getPriceHistory(symbol, count): slice(-count), and -0 is 0
GetPriceHistory(history, count) == Slice(history, 0 - count)

\* the loop of initializePriceHistory from the candles it has pushed so far
RECURSIVE InitialHistory(_, _, _)
InitialHistory(history, draws, time) ==
    IF Len(history) = InitialCandles THEN history
    ELSE InitialHistory(
            Append(history,
                   GenerateCandle(FirstAsset,
                                  IF history = <<>> THEN BasePrice(FirstAsset)
                                  ELSE history[Len(history)].close,
                                  draws[1 + (Len(history) % 2)], time)),
            draws, time)

\* new DataEngine(), constructed at the given time with the given draws
ConstructedDataEngine(draws, time) ==
    LET history == InitialHistory(<<>>, draws, time)
    IN  [priceHistory |-> history,
         indicators |-> CalculateIndicators(history, [rsi |-> Undefined,
                            ma9 |-> Undefined, ma21 |-> Undefined,
                            trend |-> "undefined"]),
         updates |-> 0,
         count |-> Undefined,
         returned |-> <<>>]

\* a DataEngine has been constructed on its own
Constructed == dataEngine.priceHistory # <<>>

\* no DataEngine has been constructed on its own
NoDataEngine ==
    [priceHistory |-> <<>>,
     indicators |-> [rsi |-> Undefined, ma9 |-> Undefined,
                     ma21 |-> Undefined, trend |-> "undefined"],
     updates |-> 0,
     count |-> Undefined,
     returned |-> <<>>]

-----------------------------------------------------------------------------
(* The state after new TradingEngine(10000) *)

NoCycle == [asset |-> "", direction |-> "", pattern |-> "",
            positionSize |-> 0, passed |-> FALSE, reason |-> ""]

\* the values runAnalysisCycle returns
NullResult == [kind |-> "null", level |-> 0, reason |-> "", score |-> 0]
Rejected(level, reason) ==
    [kind |-> "rejected", level |-> level, reason |-> reason, score |-> 0]
ChecklistRejected(score) ==
    [kind |-> "checklist", level |-> 0, reason |-> "", score |-> score]
Approved(score) ==
    [kind |-> "approved", level |-> 0, reason |-> "", score |-> score]

Init ==
    /\ now = MinAnalysisGap
    /\ price \in PriceSamples
    /\ indicators \in SnapshotSamples
    /\ currentBalance = InitialBalance
    /\ dailyStartBalance = InitialBalance
    /\ weeklyStartBalance = InitialBalance
    /\ monthlyStartBalance = InitialBalance
    /\ consecutiveLosses = 0
    /\ tradingEnabled = TRUE
    /\ positions = <<>>
    /\ closedTrades = <<>>
    /\ isRunning = FALSE
    /\ analysisState = Waiting
    /\ fearGreedIndex = 50
    /\ lastAnalysisTime = 0
    /\ pc = "idle"
    /\ cyc = NoCycle
    /\ result = NullResult
    /\ resetTimers = {}
    /\ externalTrades = 0
    /\ answer = "none"
    /\ dataEngine = NoDataEngine

-----------------------------------------------------------------------------
(* The event loop *)

\* a new task (a timer callback, a click, a test step) starts only when no
\* runAnalysisCycle is suspended at an await (its continuations are
\* microtasks) and no setTimeout callback is overdue
Idle == pc = "idle" /\ \A t \in resetTimers : t > now

\* the clock moves on, up to a horizon
AdvanceClockWithin(horizon) ==
    /\ Idle
    /\ now + ClockStep <= horizon
    /\ now' = now + ClockStep
    /\ UNCHANGED <<dataVars, riskVars, bookVars, cycleVars, isRunning,
                   fearGreedIndex, externalTrades, answer>>

AdvanceClock == AdvanceClockWithin(MaxTime)

AdvanceClockSlots == AdvanceClockWithin(MaxTimeSlots)

\* the clock moves on by a step just short of the cadence floor, or by the
\* floor itself
AdvanceClockCadence ==
    /\ Idle
    /\ \E step \in CadenceSteps :
        /\ now + step <= MaxTimeCadence
        /\ now' = now + step
    /\ UNCHANGED <<dataVars, riskVars, bookVars, cycleVars, isRunning,
                   fearGreedIndex, externalTrades, answer>>

\* the clock moves on while a cycle is suspended at an await: the awaited
\* levels set no timer, so the cycle's task is over before 5000 ms are
AdvanceClockInFlight ==
    /\ pc \in Levels
    /\ now = lastAnalysisTime
    /\ now + (MinAnalysisGap - 1) <= MaxTimeCadence
    /\ now' = now + (MinAnalysisGap - 1)
    /\ UNCHANGED <<dataVars, riskVars, bookVars, cycleVars, isRunning,
                   fearGreedIndex, externalTrades, answer>>

\* the callback of the setTimeout in runAnalysisCycle
ResetTimerFires ==
    /\ pc = "idle"
    /\ \E t \in resetTimers :
        /\ t <= now
        /\ resetTimers' = resetTimers \ {t}
    /\ analysisState' = Waiting
    /\ UNCHANGED <<now, dataVars, riskVars, bookVars, isRunning,
                   fearGreedIndex, lastAnalysisTime, pc, cyc, result,
                   externalTrades, answer>>

-----------------------------------------------------------------------------
(* Operations *)

Start ==
    /\ Idle
    /\ isRunning' = TRUE
    /\ UNCHANGED <<now, dataVars, riskVars, bookVars, cycleVars,
                   fearGreedIndex, externalTrades, answer>>

Stop ==
    /\ Idle
    /\ isRunning' = FALSE
    /\ UNCHANGED <<now, dataVars, riskVars, bookVars, cycleVars,
                   fearGreedIndex, externalTrades, answer>>

\* dataEngine.updatePrices(): generateCandle and calculateIndicators for
\* every asset
UpdatePrices ==
    /\ Idle
    /\ price' \in PriceSamples
    /\ indicators' \in SnapshotSamples
    /\ UNCHANGED <<now, riskVars, bookVars, cycleVars, isRunning,
                   fearGreedIndex, externalTrades, answer, dataEngine>>

\* updateMarketSentiment()
UpdateMarketSentiment ==
    /\ Idle
    /\ fearGreedIndex' \in SentimentSamples
    /\ UNCHANGED <<now, dataVars, riskVars, bookVars, cycleVars, isRunning,
                   externalTrades, answer>>

\* the engine takes over the book a tick or a close leaves
Commit(book) ==
    /\ positions' = book.positions
    /\ closedTrades' = book.closedTrades
    /\ currentBalance' = book.balance
    /\ consecutiveLosses' = book.losses

\* updatePositions()
UpdatePositions ==
    /\ Idle
    /\ Commit(Ticked)
    /\ UNCHANGED <<now, dataVars, dailyStartBalance, weeklyStartBalance,
                   monthlyStartBalance, tradingEnabled, cycleVars, isRunning,
                   fearGreedIndex, externalTrades, answer>>

\* ManualClose with an index outside the array brought to its nearest end
ManualCloseClamped(slotIndex) ==
    IF Len(positions) = 0 THEN Book
    ELSE IF slotIndex < 0 THEN ClosePosition(Book, 1, "MANUAL")
    ELSE IF slotIndex >= Len(positions)
    THEN ClosePosition(Book, Len(positions), "MANUAL")
    ELSE ClosePosition(Book, slotIndex + 1, "MANUAL")

\* manualClosePosition(slotIndex), slotIndex 0-based as in the code
ManualClose(slotIndex) ==
    IF slotIndex >= 0 /\ slotIndex < Len(positions)
    THEN ClosePosition(Book, slotIndex + 1, "MANUAL")
    ELSE Book

ManualClosePosition ==
    /\ Idle
    /\ \E slotIndex \in (0 - 1)..MaxPositions : Commit(ManualClose(slotIndex))
    /\ UNCHANGED <<now, dataVars, dailyStartBalance, weeklyStartBalance,
                   monthlyStartBalance, tradingEnabled, cycleVars, isRunning,
                   fearGreedIndex, externalTrades, answer>>

\* engine.openPosition(asset, direction, 'Test_Pattern') called directly, as
\* the position tests do; the positions opened so far are counted by what
\* the book holds
OpenPosition ==
    /\ Idle
    /\ Len(positions) + Len(closedTrades) < MaxOpened
    /\ \E open \in TestOpens :
        positions' = Append(positions,
                            NewPosition(open[1], open[2], "Test_Pattern"))
    /\ UNCHANGED <<now, dataVars, riskVars, closedTrades, cycleVars,
                   isRunning, fearGreedIndex, externalTrades, answer>>

\* engine.selectAsset() called directly, as the position tests do
CallSelectAsset ==
    /\ Idle
    /\ \E draw \in 1..MaxAssetDraw :
        answer' = IF AvailableAssets = <<>> THEN "null" ELSE SelectAsset(draw)
    /\ UNCHANGED <<now, dataVars, riskVars, bookVars, cycleVars, isRunning,
                   fearGreedIndex, externalTrades>>

\* engine.closedTrades assigned directly, as the statistics test does: the
\* array grows by one trade from one assignment to the next
AssignClosedTrades ==
    /\ Idle
    /\ Len(closedTrades) < MaxStatsTrades
    /\ \E trade \in StatsTrades : closedTrades' = Append(closedTrades, trade)
    /\ UNCHANGED <<now, dataVars, riskVars, positions, cycleVars, isRunning,
                   fearGreedIndex, externalTrades, answer>>

\* a returned statistics object written out, a string between quotes and a
\* number without
Written(stats) ==
    "totalTrades: " \o ToString(stats.totalTrades) \o ", winRate: "
      \o (IF stats.winRate.type = "string"
          THEN "'" \o stats.winRate.text \o "'"
          ELSE stats.winRate.text)

\* engine.getStatistics() called directly
CallGetStatistics ==
    /\ Idle
    /\ answer' = Written(GetStatistics)
    /\ UNCHANGED <<now, dataVars, riskVars, bookVars, cycleVars, isRunning,
                   fearGreedIndex, externalTrades>>

\* riskManager.recordTrade(profit) called directly, as the test suite does
RecordTrade ==
    /\ Idle
    /\ externalTrades < MaxExternalTrades
    /\ externalTrades' = externalTrades + 1
    /\ \E profit \in ExternalProfits :
        /\ currentBalance' = RecordTradeBalance(currentBalance, profit)
        /\ consecutiveLosses' = RecordTradeLosses(consecutiveLosses, profit)
    /\ UNCHANGED <<now, dataVars, dailyStartBalance, weeklyStartBalance,
                   monthlyStartBalance, tradingEnabled, bookVars, cycleVars,
                   isRunning, fearGreedIndex, answer>>

\* dataEngine.indicators[...] assigned directly, as the level tests do
SetIndicators ==
    /\ Idle
    /\ indicators' \in {[sym \in Symbols |-> ind] : ind \in GateSamples}
    /\ UNCHANGED <<now, price, dataEngine, riskVars, bookVars, cycleVars,
                   isRunning, fearGreedIndex, externalTrades, answer>>

\* new DataEngine(), as the indicator tests construct one, the first or in
\* place of one not yet called
ConstructDataEngine ==
    /\ Idle
    /\ dataEngine.updates = 0 /\ dataEngine.count = Undefined
    /\ \E draws \in ConstructionDraws :
          dataEngine' = ConstructedDataEngine(draws, now)
    /\ UNCHANGED <<now, price, indicators, riskVars, bookVars, cycleVars,
                   isRunning, fearGreedIndex, externalTrades, answer>>

\* updatePrices() of that DataEngine: generateCandle, push, shift and
\* calculateIndicators
DataEngineUpdatePrices ==
    /\ Idle
    /\ Constructed
    /\ dataEngine.updates < MaxDataUpdates
    /\ \E change \in CandleChanges :
          LET old == dataEngine.priceHistory
              newCandle == GenerateCandle(FirstAsset, old[Len(old)].close,
                                          change, now)
              history == PushCandle(old, newCandle)
          IN  dataEngine' =
                [dataEngine EXCEPT
                    !.priceHistory = history,
                    !.indicators = CalculateIndicators(history, @),
                    !.updates = @ + 1]
    /\ UNCHANGED <<now, price, indicators, riskVars, bookVars, cycleVars,
                   isRunning, fearGreedIndex, externalTrades, answer>>

\* getPriceHistory(symbol, count) of that DataEngine; a call without a count
\* is a call with the default count
CallGetPriceHistory ==
    /\ Idle
    /\ Constructed
    /\ \E count \in CountSamples :
          dataEngine' =
            [dataEngine EXCEPT
                !.count = count,
                !.returned = GetPriceHistory(dataEngine.priceHistory, count)]
    /\ UNCHANGED <<now, price, indicators, riskVars, bookVars, cycleVars,
                   isRunning, fearGreedIndex, externalTrades, answer>>

\* level1SafetyGates(asset) called directly; cyc keeps what it returned
CallLevel1 ==
    /\ Idle
    /\ \E sym \in Symbols :
          cyc' = [NoCycle EXCEPT !.asset = sym,
                                 !.passed = Level1SafetyGates(sym).passed,
                                 !.reason = Level1SafetyGates(sym).reason]
    /\ UNCHANGED <<now, dataVars, riskVars, bookVars, analysisState,
                   lastAnalysisTime, pc, result, resetTimers, isRunning,
                   fearGreedIndex, externalTrades, answer>>

\* riskManager.canTrade() called directly
CanTrade ==
    /\ Idle
    /\ answer' = IF CanTradeValue THEN "true" ELSE "false"
    /\ tradingEnabled' = CanTradeEnabledAfter
    /\ UNCHANGED <<now, dataVars, currentBalance, dailyStartBalance,
                   weeklyStartBalance, monthlyStartBalance, consecutiveLosses,
                   bookVars, cycleVars, isRunning, fearGreedIndex,
                   externalTrades>>

\* riskManager.resetDaily()
ResetDaily ==
    /\ Idle
    /\ dailyStartBalance' = currentBalance
    /\ UNCHANGED <<now, dataVars, currentBalance, weeklyStartBalance,
                   monthlyStartBalance, consecutiveLosses, tradingEnabled,
                   bookVars, cycleVars, isRunning, fearGreedIndex,
                   externalTrades, answer>>

\* ResetWeekly rebasing the daily baseline as well
ResetWeeklyAndDaily ==
    /\ Idle
    /\ weeklyStartBalance' = currentBalance
    /\ dailyStartBalance' = currentBalance
    /\ UNCHANGED <<now, dataVars, currentBalance,
                   monthlyStartBalance, consecutiveLosses, tradingEnabled,
                   bookVars, cycleVars, isRunning, fearGreedIndex,
                   externalTrades, answer>>

\* riskManager.resetWeekly()
ResetWeekly ==
    /\ Idle
    /\ weeklyStartBalance' = currentBalance
    /\ UNCHANGED <<now, dataVars, currentBalance, dailyStartBalance,
                   monthlyStartBalance, consecutiveLosses, tradingEnabled,
                   bookVars, cycleVars, isRunning, fearGreedIndex,
                   externalTrades, answer>>

\* riskManager.resetMonthly()
ResetMonthly ==
    /\ Idle
    /\ monthlyStartBalance' = currentBalance
    /\ UNCHANGED <<now, dataVars, currentBalance, dailyStartBalance,
                   weeklyStartBalance, consecutiveLosses, tradingEnabled,
                   bookVars, cycleVars, isRunning, fearGreedIndex,
                   externalTrades, answer>>

-----------------------------------------------------------------------------
(* runAnalysisCycle, one step per stretch between two awaits *)

\* the cycle returns a level or checklist rejection or an approval: its
\* promise resolves with value
Return(value) ==
    /\ result' = value
    /\ pc' = "returned"
    /\ cyc' = NoCycle

\* the cycle returns null: its caller has nothing to handle
ReturnNull ==
    /\ result' = NullResult
    /\ pc' = "idle"
    /\ cyc' = NoCycle

\* CycleBlocked without the early return on positions.length >= maxPositions
CycleBlockedNoLimit ==
    \/ ~isRunning
    \/ ~CanTradeValue
    \/ (Len(positions) = 1 /\ ~positions[1].tp1Hit)
    \/ now - lastAnalysisTime < MinAnalysisGap

\* CycleBlocked without the early return on a first position short of tp1
CycleBlockedNoGate ==
    \/ ~isRunning
    \/ ~CanTradeValue
    \/ Len(positions) >= MaxPositions
    \/ now - lastAnalysisTime < MinAnalysisGap

\* CycleBlocked without the call of canTrade()
CycleBlockedNoRisk ==
    \/ ~isRunning
    \/ Len(positions) >= MaxPositions
    \/ (Len(positions) = 1 /\ ~positions[1].tp1Hit)
    \/ now - lastAnalysisTime < MinAnalysisGap

\* CycleBlocked without the early return on now - lastAnalysisTime < 5000
CycleBlockedNoCadence ==
    \/ ~isRunning
    \/ ~CanTradeValue
    \/ Len(positions) >= MaxPositions
    \/ (Len(positions) = 1 /\ ~positions[1].tp1Hit)

\* the preconditions that make the call a no-op, in the order of the code
\* (canTrade() is evaluated only when the engine is running)
CycleBlocked ==
    \/ ~isRunning
    \/ ~CanTradeValue
    \/ Len(positions) >= MaxPositions
    \/ (Len(positions) = 1 /\ ~positions[1].tp1Hit)
    \/ now - lastAnalysisTime < MinAnalysisGap

\* the call up to the first await: the guards, selectAsset, and the call
\* of level1SafetyGates
RunAnalysisCycle ==
    /\ Idle
    /\ tradingEnabled' = IF isRunning THEN CanTradeEnabledAfter
                                      ELSE tradingEnabled
    /\ IF CycleBlocked
       THEN /\ ReturnNull
            /\ UNCHANGED <<analysisState, lastAnalysisTime>>
       ELSE /\ lastAnalysisTime' = now
            /\ IF AvailableAssets = <<>>
               THEN /\ ReturnNull
                    /\ UNCHANGED analysisState
               ELSE \E draw \in 1..MaxAssetDraw :
                    /\ analysisState' =
                           [analysisState EXCEPT !.level1 = "analyzing"]
                    /\ cyc' = [NoCycle EXCEPT
                          !.asset = SelectAsset(draw),
                          !.passed = Level1SafetyGates(SelectAsset(draw)).passed,
                          !.reason = Level1SafetyGates(SelectAsset(draw)).reason]
                    /\ pc' = "level1"
                    /\ UNCHANGED result
    /\ UNCHANGED <<now, dataVars, currentBalance, dailyStartBalance,
                   weeklyStartBalance, monthlyStartBalance, consecutiveLosses,
                   bookVars, isRunning, fearGreedIndex, resetTimers,
                   externalTrades, answer>>

\* runAnalysisCycle() called again while an earlier call is suspended at an
\* await: the same guards; past them a second cascade is in flight
RunAnalysisCycleAgain ==
    /\ pc \in Levels
    /\ tradingEnabled' = IF isRunning THEN CanTradeEnabledAfter
                                      ELSE tradingEnabled
    /\ IF CycleBlocked
       THEN UNCHANGED <<analysisState, lastAnalysisTime, pc>>
       ELSE /\ lastAnalysisTime' = now
            /\ analysisState' = [analysisState EXCEPT !.level1 = "analyzing"]
            /\ pc' = "overlapped"
    /\ UNCHANGED <<now, dataVars, currentBalance, dailyStartBalance,
                   weeklyStartBalance, monthlyStartBalance, consecutiveLosses,
                   bookVars, isRunning, fearGreedIndex, cyc, result,
                   resetTimers, externalTrades, answer>>

Verdict(passed) == IF passed THEN "passed" ELSE "failed"

\* after level 1 resolves: its verdict, then the call of level 2
ResumeLevel1 ==
    /\ pc = "level1"
    /\ IF ~cyc.passed
       THEN /\ analysisState' = [analysisState EXCEPT !.level1 = "failed"]
            /\ Return(Rejected(1, cyc.reason))
       ELSE \E draw \in 1..MaxPatternDraw, aligned \in BOOLEAN :
            /\ analysisState' = [analysisState EXCEPT
                                    !.level1 = "passed",
                                    !.level2 = "analyzing"]
            /\ cyc' = [cyc EXCEPT
                          !.direction = Level2Direction(cyc.asset),
                          !.pattern = Patterns[draw],
                          !.passed = Level2StructuralAnalysis(aligned).passed,
                          !.reason = Level2StructuralAnalysis(aligned).reason]
            /\ pc' = "level2"
            /\ UNCHANGED result
    /\ UNCHANGED <<now, dataVars, riskVars, bookVars, isRunning,
                   fearGreedIndex, lastAnalysisTime, resetTimers,
                   externalTrades, answer>>

\* ResumeLevel2 without the return on a failed level 2: level 3 is called
\* whatever the verdict
ResumeLevel2Continues ==
    /\ pc = "level2"
    /\ \E goodSignal \in BOOLEAN :
        /\ analysisState' = [analysisState EXCEPT
                                !.level2 = Verdict(cyc.passed),
                                !.level3 = "analyzing"]
        /\ cyc' = [cyc EXCEPT
                      !.positionSize = CalculatePositionSize,
                      !.passed = Level3RiskAssessment(goodSignal).passed,
                      !.reason = Level3RiskAssessment(goodSignal).reason]
        /\ pc' = "level3"
        /\ UNCHANGED result
    /\ UNCHANGED <<now, dataVars, riskVars, bookVars, isRunning,
                   fearGreedIndex, lastAnalysisTime, resetTimers,
                   externalTrades, answer>>

\* after level 2 resolves: its verdict, then the call of level 3
ResumeLevel2 ==
    /\ pc = "level2"
    /\ IF ~cyc.passed
       THEN /\ analysisState' = [analysisState EXCEPT !.level2 = "failed"]
            /\ Return(Rejected(2, cyc.reason))
       ELSE \E goodSignal \in BOOLEAN :
            /\ analysisState' = [analysisState EXCEPT
                                    !.level2 = "passed",
                                    !.level3 = "analyzing"]
            /\ cyc' = [cyc EXCEPT
                          !.positionSize = CalculatePositionSize,
                          !.passed = Level3RiskAssessment(goodSignal).passed,
                          !.reason = Level3RiskAssessment(goodSignal).reason]
            /\ pc' = "level3"
            /\ UNCHANGED result
    /\ UNCHANGED <<now, dataVars, riskVars, bookVars, isRunning,
                   fearGreedIndex, lastAnalysisTime, resetTimers,
                   externalTrades, answer>>

\* after level 3 resolves: its verdict, then the call of level 4
ResumeLevel3 ==
    /\ pc = "level3"
    /\ IF ~cyc.passed
       THEN /\ analysisState' = [analysisState EXCEPT !.level3 = "failed"]
            /\ Return(Rejected(3, cyc.reason))
       ELSE /\ analysisState' = [analysisState EXCEPT
                                    !.level3 = "passed",
                                    !.level4 = "analyzing"]
            /\ cyc' = [cyc EXCEPT
                          !.passed = Level4SentimentCheck.passed,
                          !.reason = Level4SentimentCheck.reason]
            /\ pc' = "level4"
            /\ UNCHANGED result
    /\ UNCHANGED <<now, dataVars, riskVars, bookVars, isRunning,
                   fearGreedIndex, lastAnalysisTime, resetTimers,
                   externalTrades, answer>>

\* openPosition(asset, direction, pattern) followed by
\* position.checklistScore = score
Opened(sym, direction, pattern, score) ==
    Append(positions,
           [NewPosition(sym, direction, pattern) EXCEPT
               !.checklistScore = score])

\* ResumeLevel4 with openPosition called before the checklist is run: the
\* position is in the book whatever the score
ResumeLevel4OpensFirst ==
    /\ pc = "level4"
    /\ analysisState' = [analysisState EXCEPT !.level4 = Verdict(cyc.passed)]
    /\ IF ~cyc.passed
       THEN /\ Return(Rejected(4, cyc.reason))
            /\ UNCHANGED <<positions, resetTimers>>
       ELSE \E draws \in ChecklistDrawSamples :
            LET score == ChecklistScore(ChecklistChecks(cyc.asset, draws))
            IN  /\ positions' = Opened(cyc.asset, cyc.direction,
                                       cyc.pattern, score)
                /\ IF ~ChecklistPassed(score)
                   THEN /\ Return(ChecklistRejected(score))
                        /\ UNCHANGED resetTimers
                   ELSE /\ resetTimers' = resetTimers \cup {now + ResetDelay}
                        /\ Return(Approved(score))
    /\ UNCHANGED <<now, dataVars, riskVars, closedTrades, isRunning,
                   fearGreedIndex, lastAnalysisTime, externalTrades, answer>>

\* after level 4 resolves: its verdict, the checklist, and on approval
\* openPosition and the delayed reset of analysisState
ResumeLevel4 ==
    /\ pc = "level4"
    /\ analysisState' = [analysisState EXCEPT !.level4 = Verdict(cyc.passed)]
    /\ IF ~cyc.passed
       THEN /\ Return(Rejected(4, cyc.reason))
            /\ UNCHANGED <<positions, resetTimers>>
       ELSE \E draws \in ChecklistDrawSamples :
            LET score == ChecklistScore(ChecklistChecks(cyc.asset, draws))
            IN  IF ~ChecklistPassed(score)
                THEN /\ Return(ChecklistRejected(score))
                     /\ UNCHANGED <<positions, resetTimers>>
                ELSE /\ positions' = Opened(cyc.asset, cyc.direction,
                                            cyc.pattern, score)
                     /\ resetTimers' = resetTimers \cup {now + ResetDelay}
                     /\ Return(Approved(score))
    /\ UNCHANGED <<now, dataVars, riskVars, closedTrades, isRunning,
                   fearGreedIndex, lastAnalysisTime, externalTrades, answer>>

\* the caller's continuation after await runAnalysisCycle() returned a
\* value other than null: it takes the value (runTradingCycle logs it)
HandleResult ==
    /\ pc = "returned"
    /\ pc' = "idle"
    /\ result' = NullResult
    /\ UNCHANGED <<now, dataVars, riskVars, bookVars, isRunning,
                   fearGreedIndex, analysisState, lastAnalysisTime, cyc,
                   resetTimers, externalTrades, answer>>

-----------------------------------------------------------------------------
(* The engine under its driver: the timer callbacks, the clicks, and the   *)
(* cycles they start                                                       *)

Next ==
    \/ AdvanceClock
    \/ ResetTimerFires
    \/ Start
    \/ Stop
    \/ UpdatePrices
    \/ UpdateMarketSentiment
    \/ UpdatePositions
    \/ ManualClosePosition
    \/ RunAnalysisCycle
    \/ ResumeLevel1
    \/ ResumeLevel2
    \/ ResumeLevel3
    \/ ResumeLevel4
    \/ HandleResult

Spec == Init /\ [][Next]_vars

-----------------------------------------------------------------------------
(* The engine started once and left running over three cadence windows,    *)
(* its positions closed by the ticks                                       *)

NextSlots ==
    \/ AdvanceClockSlots
    \/ ResetTimerFires
    \/ Start
    \/ UpdatePrices
    \/ UpdatePositions
    \/ RunAnalysisCycle
    \/ ResumeLevel1
    \/ ResumeLevel2
    \/ ResumeLevel3
    \/ ResumeLevel4
    \/ HandleResult

SpecSlots == Init /\ [][NextSlots]_vars

-----------------------------------------------------------------------------
(* A RiskManager on its own, called as the test suite calls it *)

NextRisk ==
    \/ RecordTrade
    \/ CanTrade
    \/ ResetDaily
    \/ ResetWeekly
    \/ ResetMonthly

SpecRisk == Init /\ [][NextRisk]_vars

-----------------------------------------------------------------------------
(* Level 1 on its own, called as the test suite calls it: on indicators    *)
(* assigned directly and a RiskManager with trades recorded directly       *)

NextGates ==
    \/ SetIndicators
    \/ RecordTrade
    \/ ResetDaily
    \/ CallLevel1

SpecGates == Init /\ [][NextGates]_vars

-----------------------------------------------------------------------------
(* The engine called at times just short of, and at, the cadence floor,    *)
(* started and stopped, with trades recorded directly on its RiskManager   *)

NextCadence ==
    \/ AdvanceClockCadence
    \/ ResetTimerFires
    \/ Start
    \/ Stop
    \/ RecordTrade
    \/ RunAnalysisCycle
    \/ ResumeLevel1
    \/ ResumeLevel2
    \/ ResumeLevel3
    \/ ResumeLevel4
    \/ HandleResult

SpecCadence == Init /\ [][NextCadence]_vars

-----------------------------------------------------------------------------
(* The engine with runAnalysisCycle called again before an earlier call    *)
(* has resolved, its positions closed by hand                              *)

NextOverlap ==
    \/ AdvanceClockCadence
    \/ AdvanceClockInFlight
    \/ ResetTimerFires
    \/ Start
    \/ Stop
    \/ ManualClosePosition
    \/ RunAnalysisCycle
    \/ RunAnalysisCycleAgain
    \/ ResumeLevel1
    \/ ResumeLevel2
    \/ ResumeLevel3
    \/ ResumeLevel4
    \/ HandleResult

SpecOverlap == Init /\ [][NextOverlap]_vars

-----------------------------------------------------------------------------
(* The book on its own, called as the position tests call it: positions    *)
(* opened directly, ticked and closed by hand                              *)

NextBook ==
    \/ AdvanceClock
    \/ UpdatePrices
    \/ OpenPosition
    \/ UpdatePositions
    \/ ManualClosePosition

SpecBook == Init /\ [][NextBook]_vars

-----------------------------------------------------------------------------
(* selectAsset on its own, called as the position tests call it: on        *)
(* positions opened directly and closed by hand                            *)

NextSelect ==
    \/ UpdatePrices
    \/ OpenPosition
    \/ ManualClosePosition
    \/ CallSelectAsset

SpecSelect == Init /\ [][NextSelect]_vars

-----------------------------------------------------------------------------
(* getStatistics on its own, called as the statistics tests call it        *)

NextStats ==
    \/ AssignClosedTrades
    \/ CallGetStatistics

SpecStats == Init /\ [][NextStats]_vars

-----------------------------------------------------------------------------
(* A DataEngine on its own, called as the indicator tests call it *)

NextData ==
    \/ ConstructDataEngine
    \/ DataEngineUpdatePrices
    \/ CallGetPriceHistory

SpecData == Init /\ [][NextData]_vars

-----------------------------------------------------------------------------
(* The running engine under its driver, every tick and every cycle call    *)
(* of which comes about, with trades recorded directly on its RiskManager  *)

NextStreak ==
    \/ Start
    \/ RecordTrade
    \/ UpdatePrices
    \/ UpdatePositions
    \/ RunAnalysisCycle
    \/ ResumeLevel1
    \/ ResumeLevel2
    \/ ResumeLevel3
    \/ ResumeLevel4
    \/ HandleResult

\* setInterval keeps firing the driver's callback, and a suspended cycle is
\* resumed by the microtask queue
SpecStreak ==
    /\ Init
    /\ [][NextStreak]_vars
    /\ WF_vars(UpdatePrices)
    /\ WF_vars(UpdatePositions)
    /\ WF_vars(RunAnalysisCycle)
    /\ WF_vars(ResumeLevel1)
    /\ WF_vars(ResumeLevel2)
    /\ WF_vars(ResumeLevel3)
    /\ WF_vars(ResumeLevel4)
    /\ WF_vars(HandleResult)

-----------------------------------------------------------------------------
(* The engine within one cadence window (the clock stands still), with     *)
(* trades recorded directly on its RiskManager                             *)

NextGuard ==
    \/ Start
    \/ Stop
    \/ UpdatePrices
    \/ UpdateMarketSentiment
    \/ UpdatePositions
    \/ ManualClosePosition
    \/ RecordTrade
    \/ RunAnalysisCycle
    \/ ResumeLevel1
    \/ ResumeLevel2
    \/ ResumeLevel3
    \/ ResumeLevel4
    \/ HandleResult

SpecGuard == Init /\ [][NextGuard]_vars

-----------------------------------------------------------------------------
(* Properties *)

C2_SecondOnlyAfterTp1 ==
    Len(positions) = 2 => positions[1].tp1Hit

\* the second position was opened in the cadence window that follows the
\* one of the first, whose tp1 was hit in between
C2_Witness ==
    /\ Len(positions) = 2
    /\ positions[1].slot = 1 /\ positions[1].tp1Hit
    /\ positions[2].slot = 2 /\ ~positions[2].tp1Hit
    /\ positions[2].openTime = positions[1].openTime + MinAnalysisGap

\* C3: a canTrade() call made while the daily drawdown is <= -3 % or the
\* monthly drawdown is <= -15 % returns false and leaves tradingEnabled
\* false.
C3_KillSwitchTrips ==
    [][(CanTrade /\ (\/ Le(GetDailyDrawdown, DailyLossLimit)
                     \/ Le(GetMonthlyDrawdown, MonthlyKillSwitch)))
          => (answer' = "false" /\ ~tradingEnabled')]_vars

\* balance 10000 brought to 9650 by one trade, then canTrade() called
C3_Witness ==
    /\ dailyStartBalance = InitialBalance
    /\ currentBalance = InitialBalance - 350000
    /\ answer = "false"
    /\ ~tradingEnabled

\* C4: once the kill switch has cleared tradingEnabled, it stays cleared,
\* canTrade() returns false in every later state and every later call of
\* runAnalysisCycle changes nothing, whatever trades, ticks, starts, stops
\* and balance recoveries happen (no baseline is reset).
C4_KillSwitchLatches ==
    [][~tradingEnabled
          => /\ ~tradingEnabled'
             /\ ~CanTradeValue'
             /\ RunAnalysisCycle => UNCHANGED vars]_vars

\* the switch is cleared, the engine is running, and the balance has
\* recovered so that no drawdown limit is breached any more
C4_Witness ==
    /\ ~tradingEnabled
    /\ isRunning
    /\ Gt(GetDailyDrawdown, DailyLossLimit)
    /\ Gt(GetMonthlyDrawdown, MonthlyKillSwitch)
    /\ consecutiveLosses < 3

\* C5: after the kill switch has tripped, a resetDaily or resetMonthly
\* that brings both drawdowns back above their limits restores trading:
\* the next canTrade() returns true, given fewer than 3 consecutive losses.
C5_ResetRestoresTrading ==
    [][(/\ ~tradingEnabled
        /\ ResetDaily \/ ResetMonthly
        /\ Gt(GetDailyDrawdown', DailyLossLimit)
        /\ Gt(GetMonthlyDrawdown', MonthlyKillSwitch)
        /\ consecutiveLosses' < 3)
          => CanTradeValue']_vars

\* C6: with three consecutive losing trades recorded and no drawdown limit
\* breached, canTrade() returns false and tradingEnabled stays true.
C6_LossStreakBlocks ==
    [][(/\ CanTrade
        /\ tradingEnabled
        /\ consecutiveLosses >= 3
        /\ Gt(GetDailyDrawdown, DailyLossLimit)
        /\ Gt(GetMonthlyDrawdown, MonthlyKillSwitch))
          => (answer' = "false" /\ tradingEnabled')]_vars

\* three trades of -50 on balance 10000, then canTrade() called
C6_Witness ==
    /\ externalTrades = 3
    /\ consecutiveLosses = 3
    /\ currentBalance = InitialBalance - 150000
    /\ answer = "false"
    /\ tradingEnabled

\* C7: a runAnalysisCycle call made while the engine is not running or
\* while canTrade() is false returns null, no rejection, and leaves
\* analysisState, lastAnalysisTime, the open positions, the closed trades
\* and the balance unchanged.
C7_BlockedCycleIsNoOp ==
    [][(RunAnalysisCycle /\ (~isRunning \/ ~CanTradeValue))
          => /\ result' = NullResult
             /\ pc' = "idle"
             /\ UNCHANGED <<analysisState, lastAnalysisTime, positions,
                            closedTrades, currentBalance>>]_vars

\* a running engine whose only cycle call so far tripped the kill switch:
\* no level has been analysed and no cycle has been timed
C7_Witness ==
    /\ isRunning
    /\ ~tradingEnabled
    /\ pc = "idle" /\ result = NullResult
    /\ analysisState = Waiting
    /\ lastAnalysisTime = 0

\* C8 as stated: every open LONG has stopLoss < entryPrice < tp1 < tp2,
\* every open SHORT stopLoss > entryPrice > tp1 > tp2, strictly, in every
\* reachable state.
C8_StrictOrdering ==
    \A i \in 1..Len(positions) :
        LET pos == positions[i]
        IN  IF pos.direction = "LONG"
            THEN pos.stopLoss < pos.entryPrice /\ pos.entryPrice < pos.tp1
                 /\ pos.tp1 < pos.tp2
            ELSE pos.stopLoss > pos.entryPrice /\ pos.entryPrice > pos.tp1
                 /\ pos.tp1 > pos.tp2

\* C8, amended: every open LONG has entryPrice < tp1 < tp2 and every open
\* SHORT entryPrice > tp1 > tp2, strictly; the stop-loss is strictly on
\* the losing side of entryPrice until tp1 is hit and equals entryPrice
\* from then on.
C8_OrderingUpToBreakEven ==
    \A i \in 1..Len(positions) :
        LET pos == positions[i]
        IN  /\ IF pos.direction = "LONG"
               THEN pos.entryPrice < pos.tp1 /\ pos.tp1 < pos.tp2
               ELSE pos.entryPrice > pos.tp1 /\ pos.tp1 > pos.tp2
            /\ IF pos.tp1Hit
               THEN pos.stopLoss = pos.entryPrice
               ELSE IF pos.direction = "LONG"
                    THEN pos.stopLoss < pos.entryPrice
                    ELSE pos.stopLoss > pos.entryPrice

\* a SHORT is open past its tp1 next to a position still short of its own
C8_Witness ==
    /\ Len(positions) = 2
    /\ positions[1].direction = "SHORT" /\ positions[1].tp1Hit
    /\ ~positions[2].tp1Hit

\* the position at index i is reached by the forEach of the tick that
\* makes this step: the first always, the second unless the first was
\* removed before its turn
Examined(i) ==
    \/ i = 1
    \/ Len(positions') >= 1 /\ positions'[1].id = positions[1].id

\* the positions still open after the step, and the trades the step
\* closed, that carry the given id
OpenAfter(id) == {j \in 1..Len(positions') : positions'[j].id = id}
ClosedBy(id) ==
    {k \in (Len(closedTrades) + 1)..Len(closedTrades') :
        closedTrades'[k].id = id}

\* price at or beyond tp1 in the favourable direction
AtTp1(pos) ==
    IF pos.direction = "LONG" THEN price[pos.symbol] >= pos.tp1
                              ELSE price[pos.symbol] <= pos.tp1

\* price at or beyond tp2 in the favourable direction
AtTp2(pos) ==
    IF pos.direction = "LONG" THEN price[pos.symbol] >= pos.tp2
                              ELSE price[pos.symbol] <= pos.tp2

\* C9: a tick that examines a position with tp1Hit = false while the
\* price is at or beyond its tp1 sets tp1Hit and moves stopLoss to
\* entryPrice (on the position, or on the trade if the same tick closes
\* it) and records size x 0.5 x 0.005 as a profit: a tick over a single
\* such position adds exactly that to the balance (plus the tp2 tier if it
\* closes it) and clears the loss streak; a tick over a single position
\* whose tp1Hit is already set and that stays open adds nothing; and no
\* step takes tp1Hit back to false.
C9_Tp1HitOnce ==
    [][/\ UpdatePositions =>
            \A i \in 1..Len(positions) :
                LET pos == positions[i]
                IN  (Examined(i) /\ ~pos.tp1Hit /\ AtTp1(pos)) =>
                    /\ \A j \in OpenAfter(pos.id) :
                           /\ positions'[j].tp1Hit
                           /\ positions'[j].stopLoss = pos.entryPrice
                    /\ \A k \in ClosedBy(pos.id) :
                           /\ closedTrades'[k].tp1Hit
                           /\ closedTrades'[k].stopLoss = pos.entryPrice
                    /\ Len(positions) = 1 =>
                           /\ consecutiveLosses' = 0
                           /\ currentBalance' =
                                 IF OpenAfter(pos.id) # {}
                                 THEN Add(currentBalance,
                                          Scale(pos.size, 25, 10000))
                                 ELSE Add(Add(currentBalance,
                                              Scale(pos.size, 25, 10000)),
                                          Scale(pos.size, 6, 1000))
       /\ (UpdatePositions /\ Len(positions) = 1 /\ positions[1].tp1Hit
              /\ Len(positions') = 1) => currentBalance' = currentBalance
       /\ \A i \in 1..Len(positions) :
              \A j \in OpenAfter(positions[i].id) :
                  positions[i].tp1Hit => positions'[j].tp1Hit]_vars

\* a single position is open with its tp1 profit, and nothing else,
\* recorded in the balance
C9_Witness ==
    /\ Len(positions) = 1 /\ closedTrades = <<>>
    /\ positions[1].tp1Hit
    /\ positions[1].stopLoss = positions[1].entryPrice
    /\ currentBalance =
           InitialBalance + Scale(positions[1].size, 25, 10000)

\* C10: a tick that examines a position while the price is at or beyond
\* its tp2 removes it from the open positions and appends exactly one
\* ClosedTrade for it, with closeReason TP2 (no SL close of it in the same
\* tick).
C10_Tp2ClosesOnce ==
    [][UpdatePositions =>
          \A i \in 1..Len(positions) :
              LET pos == positions[i]
              IN  (Examined(i) /\ AtTp2(pos)) =>
                  /\ OpenAfter(pos.id) = {}
                  /\ Cardinality(ClosedBy(pos.id)) = 1
                  /\ \A k \in ClosedBy(pos.id) :
                         closedTrades'[k].closeReason = "TP2"]_vars

\* a trade closed at its tp2 is the only record of its position
C10_Witness ==
    /\ Len(closedTrades) = 1
    /\ closedTrades[1].closeReason = "TP2"
    /\ \A j \in 1..Len(positions) : positions[j].id # closedTrades[1].id

\* price at or beyond the stop-loss on the losing side, and strictly beyond
AtStop(pos) ==
    IF pos.direction = "LONG" THEN price[pos.symbol] <= pos.stopLoss
                              ELSE price[pos.symbol] >= pos.stopLoss
BeyondStop(pos) == AtStop(pos) /\ price[pos.symbol] # pos.stopLoss

\* ((price - entryPrice) / entryPrice) * size at the current price,
\* mirrored for SHORT
LivePnl(pos) ==
    LET move == IF pos.direction = "LONG"
                THEN price[pos.symbol] - pos.entryPrice
                ELSE pos.entryPrice - price[pos.symbol]
    IN  Scale(pos.size, TruncDiv(move * 10000, pos.entryPrice), 10000)

\* C11: a tick that examines a position while the price is at or beyond
\* its stop-loss (relocated or not) removes it and appends one ClosedTrade
\* for it with closeReason SL and the mark-to-market P&L, which is not
\* positive; when the price is strictly beyond the stop (a tick over a
\* single position) the balance decreases.
C11_StopLossCloses ==
    [][UpdatePositions =>
          \A i \in 1..Len(positions) :
              LET pos == positions[i]
              IN  (Examined(i) /\ AtStop(pos)) =>
                  /\ OpenAfter(pos.id) = {}
                  /\ Cardinality(ClosedBy(pos.id)) = 1
                  /\ \A k \in ClosedBy(pos.id) :
                         /\ closedTrades'[k].closeReason = "SL"
                         /\ closedTrades'[k].finalPnl = LivePnl(pos)
                         /\ ~Gt(closedTrades'[k].finalPnl, 0)
                  /\ (Len(positions) = 1 /\ BeyondStop(pos)) =>
                         Lt(currentBalance', currentBalance)]_vars

\* C12: a manual close of an open position removes it, appends a
\* ClosedTrade with closeReason MANUAL whose realized P&L is the
\* mark-to-market value at the current price, and adds that amount to the
\* balance, which is a number afterwards.
C12_ManualCloseRealizesPnl ==
    [][(ManualClosePosition /\ Len(positions') < Len(positions)) =>
          \E i \in 1..Len(positions) :
              LET pos == positions[i]
                  trade == closedTrades'[Len(closedTrades')]
              IN  /\ OpenAfter(pos.id) = {}
                  /\ Len(closedTrades') = Len(closedTrades) + 1
                  /\ trade.id = pos.id
                  /\ trade.closeReason = "MANUAL"
                  /\ trade.finalPnl = LivePnl(pos)
                  /\ IsNum(currentBalance) =>
                         /\ IsNum(currentBalance')
                         /\ currentBalance' =
                               Add(currentBalance, LivePnl(pos))]_vars

\* C13: manualClosePosition with a negative index, or one not below the
\* number of open positions, changes neither the open positions, nor the
\* closed trades, nor the balance, nor the loss streak.
C13_EmptySlotNoEffect ==
    [][\A slotIndex \in (0 - 1)..MaxPositions :
          (/\ Idle
           /\ slotIndex < 0 \/ slotIndex >= Len(positions)
           /\ Commit(ManualClose(slotIndex)))
             => UNCHANGED <<positions, closedTrades, currentBalance,
                            consecutiveLosses>>]_vars

\* one position is open next to a closed trade: index 0 addresses the
\* position, the indices -1, 1 and 2 address empty slots
C13_Witness ==
    /\ Idle
    /\ Len(positions) = 1
    /\ Len(closedTrades) = 1
    /\ IsNum(currentBalance)

\* C14: recordTrade(pnl) adds pnl to the balance, adds one to the loss
\* streak when pnl < 0 and sets it to zero when pnl >= 0 (the recursion
\* that makes the streak the length of the trailing run of losing trades).
C14_RecordTradeCounts ==
    [][RecordTrade =>
          \E pnl \in ExternalProfits :
              /\ currentBalance' = currentBalance + pnl
              /\ consecutiveLosses' =
                    IF pnl < 0 THEN consecutiveLosses + 1 ELSE 0]_vars

\* after the trades -50, +350, -350 in this order or -350, +350, -50: the
\* trailing run of losses has length 1
C14_Witness ==
    /\ externalTrades = 3
    /\ currentBalance = InitialBalance - 50000
    /\ consecutiveLosses = 1

TruncatedPercent(d, current, start) ==
    LET n == (current - start) * 100
    IN  IF n >= 0 THEN d >= 0 /\ d * start <= n /\ n < (d + 1) * start
                  ELSE d <= 0 /\ d * start >= n /\ n > (d - 1) * start

\* C16: resetDaily, resetWeekly and resetMonthly each set their own
\* baseline to the current balance, so that the drawdown on it is 0 right
\* afterwards, and leave the balance, the other two baselines and the loss
\* streak unchanged; each drawdown is (current - baseline) / baseline x 100
\* of the current fields.
C16_ResetsRebaseOneBaseline ==
    [][/\ ResetDaily =>
            /\ dailyStartBalance' = currentBalance
            /\ GetDailyDrawdown' = 0
            /\ UNCHANGED <<currentBalance, weeklyStartBalance,
                           monthlyStartBalance, consecutiveLosses>>
       /\ ResetWeekly =>
            /\ weeklyStartBalance' = currentBalance
            /\ GetWeeklyDrawdown' = 0
            /\ UNCHANGED <<currentBalance, dailyStartBalance,
                           monthlyStartBalance, consecutiveLosses>>
       /\ ResetMonthly =>
            /\ monthlyStartBalance' = currentBalance
            /\ GetMonthlyDrawdown' = 0
            /\ UNCHANGED <<currentBalance, dailyStartBalance,
                           weeklyStartBalance, consecutiveLosses>>
       /\ TruncatedPercent(GetDailyDrawdown', currentBalance',
                           dailyStartBalance')
       /\ TruncatedPercent(GetWeeklyDrawdown', currentBalance',
                           weeklyStartBalance')
       /\ TruncatedPercent(GetMonthlyDrawdown', currentBalance',
                           monthlyStartBalance')]_vars

\* after a loss, the weekly baseline alone has been rebased
C16_Witness ==
    /\ weeklyStartBalance = currentBalance
    /\ currentBalance = InitialBalance - 350000
    /\ dailyStartBalance = InitialBalance
    /\ monthlyStartBalance = InitialBalance
    /\ consecutiveLosses = 1

\* C17: level 1 rejects exactly when the RSI is below 30 or above 70, or
\* the current volume is below half the average volume, or the loss streak
\* is 3 or more, or the daily drawdown is <= -3 %, or the monthly drawdown
\* is <= -12 %; it passes otherwise (an RSI of exactly 30 or 70 and a
\* volume of exactly half the average pass).
C17_Level1Rejects ==
    [][CallLevel1 =>
          LET ind == indicators[cyc'.asset]
          IN  cyc'.passed <=>
                ~ \/ ind.rsi < 30
                  \/ ind.rsi > 70
                  \/ 2 * ind.currentVolume < ind.avgVolume
                  \/ consecutiveLosses >= 3
                  \/ (currentBalance - dailyStartBalance) * 100
                        <= (0 - 3) * dailyStartBalance
                  \/ (currentBalance - monthlyStartBalance) * 100
                        <= (0 - 12) * monthlyStartBalance]_vars

\* level 1 passed an RSI of exactly 30 with a volume of exactly half the
\* average and two losses in a row
C17_Witness ==
    /\ cyc.passed
    /\ cyc.asset = "BTC"
    /\ indicators["BTC"].rsi = 30
    /\ 2 * indicators["BTC"].currentVolume = indicators["BTC"].avgVolume
    /\ consecutiveLosses = 2

\* C18: when the four levels have passed, the cycle either returns a
\* checklist rejection carrying a score below 20 and opens no position, or
\* opens one position carrying a score of at least 20 and at most 23; the
\* score is the number of passed checks among exactly 23 checks.
C18_ChecklistGatesOpening ==
    [][/\ (ResumeLevel4 /\ cyc.passed) =>
            /\ \E draws \in ChecklistDrawSamples :
                  LET checks == ChecklistChecks(cyc.asset, draws)
                  IN  /\ Len(checks) = ChecklistTotal
                      /\ result'.score =
                            Cardinality({i \in 1..ChecklistTotal : checks[i]})
            /\ \/ /\ result'.kind = "checklist"
                  /\ result'.score < 20
                  /\ positions' = positions
               \/ /\ result'.kind = "approved"
                  /\ result'.score >= 20 /\ result'.score <= 23
                  /\ Len(positions') = Len(positions) + 1
                  /\ positions'[Len(positions')].checklistScore
                        = result'.score
       /\ Len(positions') > Len(positions) =>
            /\ result'.kind = "approved"
            /\ positions'[Len(positions')].checklistScore >= 20
            /\ positions'[Len(positions')].checklistScore <= 23]_vars

\* a cycle passed its four levels and was rejected by the checklist with
\* 19 points
C18_Witness ==
    /\ pc = "returned"
    /\ result.kind = "checklist"
    /\ result.score = 19
    /\ analysisState.level4 = "passed"

\* the name of level k in analysisState, and the level after it
LevelName(k) ==
    CASE k = 1 -> "level1" [] k = 2 -> "level2"
      [] k = 3 -> "level3" [] k = 4 -> "level4"

\* the reasons level k gives for a rejection
LevelReasons(k) ==
    CASE k = 1 -> {"RSI outside safe range", "Insufficient volume",
                   "Max consecutive losses reached",
                   "Daily loss limit reached", "Max drawdown alert triggered"}
      [] k = 2 -> {"Insufficient timeframe alignment"}
      [] k = 3 -> {"Risk/Reward ratio too low",
                   "Entry signal quality insufficient"}
      [] k = 4 -> {"Extreme market sentiment"}

\* C19: within a cycle the levels run in the order 1, 2, 3, 4, checklist.
\* Level 1 becomes 'analyzing' only when a call starts a cycle from the idle
\* engine; level k+1 becomes 'analyzing' only in the step in which level k,
\* which was 'analyzing', becomes 'passed'; a level gets a verdict only when
\* it was 'analyzing'; when a level fails the cycle ends in that step, with
\* a result that carries that level's number and one of that level's
\* reasons, and no later level's state changes and no position is opened;
\* the checklist's result comes only in the step in which level 4 becomes
\* 'passed', levels 1 to 3 being 'passed'; and while a cycle is running no
\* step other than the cycle's own happens.
C19_LevelsInOrder ==
    [][/\ (analysisState'.level1 = "analyzing"
             /\ analysisState.level1 # "analyzing") =>
             pc = "idle" /\ pc' = "level1"
       /\ \A k \in 1..3 :
            (analysisState'[LevelName(k + 1)] = "analyzing"
               /\ analysisState[LevelName(k + 1)] # "analyzing") =>
                 /\ analysisState[LevelName(k)] = "analyzing"
                 /\ analysisState'[LevelName(k)] = "passed"
                 /\ \A j \in 1..k : analysisState'[LevelName(j)] = "passed"
                 /\ pc = LevelName(k) /\ pc' = LevelName(k + 1)
       /\ \A k \in 1..4 :
            /\ (analysisState'[LevelName(k)] \in {"passed", "failed"}
                  /\ analysisState'[LevelName(k)] # analysisState[LevelName(k)])
                 => analysisState[LevelName(k)] = "analyzing"
            /\ (analysisState[LevelName(k)] = "analyzing"
                  /\ analysisState'[LevelName(k)] = "failed") =>
                 /\ pc' = "returned"
                 /\ result'.kind = "rejected"
                 /\ result'.level = k
                 /\ result'.reason \in LevelReasons(k)
                 /\ \A j \in (k + 1)..4 :
                      analysisState'[LevelName(j)] = analysisState[LevelName(j)]
                 /\ positions' = positions
            /\ (pc = LevelName(k)) =>
                 /\ analysisState[LevelName(k)] = "analyzing"
                 /\ analysisState'[LevelName(k)] \in {"passed", "failed"}
       /\ (result'.kind \in {"checklist", "approved"}
             /\ result.kind \notin {"checklist", "approved"}) =>
             /\ pc = "level4"
             /\ analysisState.level4 = "analyzing"
             /\ \A k \in 1..4 : analysisState'[LevelName(k)] = "passed"
       /\ (result'.kind = "rejected" /\ result.kind # "rejected") =>
             /\ analysisState'[LevelName(result'.level)] = "failed"
             /\ \A j \in 1..(result'.level - 1) :
                  analysisState'[LevelName(j)] = "passed"]_vars

\* a cycle has ended at level 2, after level 1 passed and before level 3
\* was ever evaluated
C19_Witness ==
    /\ pc = "returned"
    /\ result.kind = "rejected"
    /\ result.level = 2
    /\ result.reason = "Insufficient timeframe alignment"
    /\ analysisState.level1 = "passed"
    /\ analysisState.level2 = "failed"
    /\ analysisState.level3 = "waiting"
    /\ analysisState.level4 = "waiting"

\* C20: a cycle starts only when at least 5000 ms have passed since the
\* last started cycle.  A call of runAnalysisCycle made less than 5000 ms
\* after lastAnalysisTime returns null and leaves the analysis state, the
\* positions and lastAnalysisTime as they were; a call that returns null
\* for another precondition (engine stopped, canTrade() false, two
\* positions open, a single position short of tp1) leaves lastAnalysisTime
\* as it was; a call that starts a cycle is at least 5000 ms after
\* lastAnalysisTime and sets lastAnalysisTime to the time of the call; and
\* nothing but a call that starts a cycle changes lastAnalysisTime.
C20_CadenceFloor ==
    [][/\ RunAnalysisCycle =>
            /\ (now - lastAnalysisTime < 5000) =>
                 /\ pc' = "idle"
                 /\ result' = NullResult
                 /\ lastAnalysisTime' = lastAnalysisTime
                 /\ analysisState' = analysisState
                 /\ positions' = positions
            /\ (\/ ~isRunning
                \/ ~CanTradeValue
                \/ Len(positions) >= 2
                \/ (Len(positions) = 1 /\ ~positions[1].tp1Hit)) =>
                 /\ pc' = "idle"
                 /\ result' = NullResult
                 /\ lastAnalysisTime' = lastAnalysisTime
            /\ (pc' = "level1") =>
                 /\ now - lastAnalysisTime >= 5000
                 /\ lastAnalysisTime' = now
       /\ (lastAnalysisTime' # lastAnalysisTime) =>
            /\ pc = "idle" /\ pc' = "level1"
            /\ lastAnalysisTime' = now
       /\ (pc = "idle" /\ pc' = "level1") =>
            now - lastAnalysisTime >= 5000]_vars

\* a cycle was started 4999 ms ago and has ended, and nothing but the
\* cadence floor stands against a new one: a call made now returns null and
\* leaves this very state
C20_Witness ==
    /\ Idle
    /\ isRunning
    /\ CanTradeValue
    /\ positions = <<>>
    /\ lastAnalysisTime > 0
    /\ now - lastAnalysisTime = 4999

\* the positions opened, open or closed since, at or after time t
OpenedSince(t) ==
    Cardinality({i \in 1..Len(positions) : positions[i].openTime >= t})
      + Cardinality({i \in 1..Len(closedTrades) : closedTrades[i].openTime >= t})

\* C21: at most one cascade is in flight.  A call of runAnalysisCycle made
\* while an earlier call is suspended at an await starts no second cascade:
\* it leaves the analysis state, lastAnalysisTime, the suspended cycle and
\* the positions as they were; and the calls made since the latest cycle
\* started have together opened at most one position.
C21_OneCascadeInFlight ==
    [][/\ pc' # "overlapped"
       /\ RunAnalysisCycleAgain =>
            /\ analysisState' = analysisState
            /\ lastAnalysisTime' = lastAnalysisTime
            /\ pc' = pc /\ cyc' = cyc /\ result' = result
            /\ positions' = positions
       /\ OpenedSince(lastAnalysisTime)' <= 1]_vars

\* a cycle started 4999 ms ago is suspended at the await of level 3 while
\* the engine is running and able to trade with no position open: a second
\* call made now returns null and leaves this very state
C21_Witness ==
    /\ pc = "level3"
    /\ isRunning
    /\ CanTradeValue
    /\ positions = <<>>
    /\ now - lastAnalysisTime = 4999

\* C22: a cycle that ends rejected at a level or at the checklist leaves
\* the balance, the three baselines, the consecutive-loss counter,
\* tradingEnabled, the open positions and the closed trades unchanged.
\* Every step of such a cycle, from the call that starts it to the step
\* that returns the rejection, leaves them as they were (and no other task
\* runs between the steps of a cycle).
C22_RejectionChangesNothing ==
    [][(\/ pc = "idle" /\ pc' = "level1"
        \/ pc \in Levels /\ result'.kind # "approved")
          => /\ UNCHANGED <<currentBalance, dailyStartBalance,
                            weeklyStartBalance, monthlyStartBalance,
                            consecutiveLosses, tradingEnabled, positions,
                            closedTrades>>
             /\ pc' \in Levels \cup {"returned"}
             /\ pc' = "returned" => result'.kind \in {"rejected", "checklist"}]_vars

\* a cycle has just ended with a checklist rejection while a first
\* position, past its tp1, is open and its partial profit is in the balance
C22_Witness ==
    /\ pc = "returned"
    /\ result.kind = "checklist"
    /\ Len(positions) = 1
    /\ positions[1].tp1Hit
    /\ currentBalance > InitialBalance
    /\ tradingEnabled

\* C23: on full approval exactly one position is appended and the result
\* is reported as approved; the position is on the cycle's asset, LONG
\* exactly when that asset's trend is bullish and SHORT otherwise, carries
\* the pattern chosen at level 2, has the size level 3 computed, and has
\* the approved checklist score attached.
C23_ApprovedPosition ==
    [][(pc = "level4" /\ (result'.kind = "approved"
                            \/ Len(positions') > Len(positions)))
          => /\ result'.kind = "approved"
             /\ pc' = "returned"
             /\ Len(positions') = Len(positions) + 1
             /\ SubSeq(positions', 1, Len(positions)) = positions
             /\ LET pos == positions'[Len(positions')]
                IN  /\ pos.symbol = cyc.asset
                    /\ (pos.direction = "LONG")
                         <=> (indicators[cyc.asset].trend = "bullish")
                    /\ (pos.direction = "SHORT")
                         <=> (indicators[cyc.asset].trend # "bullish")
                    /\ pos.pattern = cyc.pattern
                    /\ \E k \in 1..Len(Patterns) : pos.pattern = Patterns[k]
                    /\ pos.size = cyc.positionSize
                    /\ pos.size = CalculatePositionSize
                    /\ pos.checklistScore = result'.score
                    /\ ChecklistPassed(pos.checklistScore)]_vars

\* a cycle on a bearish snapshot has just been approved and its SHORT
\* position is the only one open
C23_Witness ==
    /\ pc = "returned"
    /\ result.kind = "approved"
    /\ Len(positions) = 1
    /\ positions[1].direction = "SHORT"
    /\ indicators[positions[1].symbol].trend = "bearish"
    /\ positions[1].checklistScore = result.score
    /\ positions[1].size = 50000

\* C24: the open positions have distinct slot indices drawn from {1, 2},
\* after any sequence of opens and closes.
C24_DistinctSlots ==
    /\ \A i \in 1..Len(positions) : positions[i].slot \in {1, 2}
    /\ \A i, j \in 1..Len(positions) :
          i # j => positions[i].slot # positions[j].slot

\* the ids of the positions the book has held: the open ones, then the
\* closed ones
BookIds ==
    [i \in 1..(Len(positions) + Len(closedTrades)) |->
        IF i <= Len(positions) THEN positions[i].id
        ELSE closedTrades[i - Len(positions)].id]

\* C25: no two positions among the open set and the closed-trade history
\* share an id.
C25_UniqueIds ==
    \A i, j \in 1..Len(BookIds) : i # j => BookIds[i] # BookIds[j]

\* C26: the closed-trade history is append-only and every position is
\* either open or recorded by exactly one ClosedTrade.  Every step leaves
\* the old history as a prefix of the new one; every position open before
\* the step is afterwards either still open and in no appended trade, or
\* no longer open and in exactly one appended trade; every appended trade
\* records a position that was open before the step; and after the step no
\* id is both open and in the history, or twice in the history.
C26_AppendOnlyHistory ==
    [][/\ Len(closedTrades') >= Len(closedTrades)
       /\ SubSeq(closedTrades', 1, Len(closedTrades)) = closedTrades
       /\ \A i \in 1..Len(positions) :
            \/ /\ Cardinality(OpenAfter(positions[i].id)) = 1
               /\ ClosedBy(positions[i].id) = {}
            \/ /\ OpenAfter(positions[i].id) = {}
               /\ Cardinality(ClosedBy(positions[i].id)) = 1
       /\ \A k \in (Len(closedTrades) + 1)..Len(closedTrades') :
            \E i \in 1..Len(positions) : positions[i].id = closedTrades'[k].id
       /\ \A j \in 1..Len(positions'), k \in 1..Len(closedTrades') :
            positions'[j].id # closedTrades'[k].id
       /\ \A k, l \in 1..Len(closedTrades') :
            k # l => closedTrades'[k].id # closedTrades'[l].id]_vars

\* a first position has been closed by a tick at its stop-loss and is in
\* the history, while a second position, opened after it, is still open
C26_Witness ==
    /\ Len(closedTrades) = 1
    /\ closedTrades[1].closeReason = "SL"
    /\ Len(positions) = 1
    /\ positions[1].id > closedTrades[1].id
    /\ positions[1].slot = 2

\* C27: once a recorded trade has brought the daily drawdown to -3 % or
\* below, or the monthly drawdown to -15 % or below, tradingEnabled is
\* cleared, whether or not canTrade() is called: a step that changes the
\* balance and leaves the baselines alone, and after which a drawdown is in
\* breach, leaves tradingEnabled false.
C27_BreachClearsTrading ==
    [][(/\ currentBalance' # currentBalance
        /\ UNCHANGED <<dailyStartBalance, weeklyStartBalance,
                       monthlyStartBalance>>
        /\ KillSwitchTrips')
          => ~tradingEnabled']_vars

\* canTrade() is false for the consecutive losses alone, on a running
\* engine
BlockedByStreak ==
    /\ isRunning
    /\ tradingEnabled
    /\ ~KillSwitchTrips
    /\ consecutiveLosses >= 3

\* C28: the block by three consecutive losses is transient: from every
\* state where the engine is running, tradingEnabled is true and canTrade()
\* is false for the consecutive losses alone, the engine on its own
\* eventually reaches a state where canTrade() is true again, so that a
\* cycle can start.
C28_StreakBlockIsTransient == BlockedByStreak ~> (isRunning /\ CanTradeValue)

\* the checklist items that restate conditions of level 1 and level 4: RSI
\* Safe Range, Volume Sufficient, Loss Streak OK, Daily Loss OK, Drawdown
\* Safe, Sentiment Neutral
RestatedItems == {1, 2, 3, 4, 5, 23}

\* C29: whenever the checklist is reached, that is when level 4 has passed
\* after levels 1 to 3 and the checklist is about to be run on the same
\* snapshot, each of the items that restate level 1 and level 4 passes.
C29_RestatementsPass ==
    (pc = "level4" /\ cyc.passed) =>
        \A draws \in ChecklistDrawSamples :
            \A i \in RestatedItems : ChecklistChecks(cyc.asset, draws)[i]

\* C30: after an updatePositions() call every position still open has its
\* live P&L equal to the mark-to-market value at the current price, and the
\* price has crossed neither its tp2 nor its stop-loss, also when another
\* position was closed earlier in the same tick.
C30_TickProcessesEveryPosition ==
    [][UpdatePositions =>
          \A j \in 1..Len(positions') :
              /\ positions'[j].pnl = LivePnl(positions'[j])
              /\ ~AtTp2(positions'[j])
              /\ ~AtStop(positions'[j])]_vars

\* C31: selectAsset returns null whenever the number of open positions has
\* reached the maximum of 2.
C31_SelectsNoneAtMaximum ==
    [][(CallSelectAsset /\ Len(positions) >= MaxPositions)
          => answer' = "null"]_vars

\* C32: selectAsset never returns an asset that has an open position: the
\* asset a cycle works on has no open position, and no two open positions
\* share a symbol.
C32_DistinctSymbols ==
    /\ pc \in Levels => ~InPositions(cyc.asset)
    /\ \A i, j \in 1..Len(positions) :
          i # j => positions[i].symbol # positions[j].symbol

\* two positions opened by two cycles are open, on two assets
C32_Witness ==
    /\ Len(positions) = 2
    /\ positions[1].id < positions[2].id
    /\ positions[1].symbol = "BTC"
    /\ positions[2].symbol = "ETH"

\* the closed-trade history of the statistics test: +50, -30, +40, +60
TestHistory ==
    << [finalPnl |-> 50000, symbol |-> "BTC"],
       [finalPnl |-> 0 - 30000, symbol |-> "ETH"],
       [finalPnl |-> 40000, symbol |-> "SOL"],
       [finalPnl |-> 60000, symbol |-> "BTC"] >>

\* C33: for a non-empty closed-trade history getStatistics() returns the
\* number of trades as totalTrades and, as winRate, the string with one
\* decimal of the multiple of 0.1 nearest to 100 x (trades with realized
\* P&L > 0) / (trades), a trade with zero P&L counting in the denominator
\* only; for the P&Ls +50, -30, +40, +60 it is '75.0' with totalTrades 4.
C33_WinRate ==
    [][(CallGetStatistics /\ closedTrades # <<>>) =>
          LET total == Len(closedTrades)
              wins == Cardinality({i \in 1..total :
                                      closedTrades[i].finalPnl > 0})
          IN  /\ \E n \in 0..1000 :
                    /\ 2 * n * total - 2000 * wins <= total
                    /\ 2000 * wins - 2 * n * total <= total
                    /\ answer' = "totalTrades: " \o ToString(total)
                                   \o ", winRate: '" \o ToString(n \div 10)
                                   \o "." \o ToString(n % 10) \o "'"
              /\ closedTrades = TestHistory =>
                    answer' = "totalTrades: 4, winRate: '75.0'"]_vars

\* getStatistics() has answered on a history of two winning trades and one
\* that broke even: two in three, '66.7'
C33_Witness ==
    /\ Len(closedTrades) = 3
    /\ Cardinality({i \in 1..3 : closedTrades[i].finalPnl > 0}) = 2
    /\ Cardinality({i \in 1..3 : closedTrades[i].finalPnl = 0}) = 1
    /\ answer = "totalTrades: 3, winRate: '66.7'"

\* C34: with no closed trades getStatistics() returns totalTrades 0 and, as
\* winRate, the string '0'.
C34_NoTradesWinRate ==
    [][(CallGetStatistics /\ closedTrades = <<>>) =>
          answer' = "totalTrades: 0, winRate: '0'"]_vars

\* the candle history of the DataEngine constructed on its own
History == dataEngine.priceHistory

\* C35: a candle history never holds more than 100 candles; an update that
\* would take it beyond 100 evicts exactly the oldest candle, keeps the
\* others in their order and puts the new candle last; the history, which
\* starts with 100 candles, stays at exactly 100.
C35_RollingHistory ==
    /\ [](Constructed => /\ Len(History) <= HistoryCapacity
                          /\ Len(History) = InitialCandles)
    /\ [][DataEngineUpdatePrices =>
            /\ Len(History') = Len(History)
            /\ SubSeq(History', 1, Len(History') - 1) = Tail(History)
            /\ \E change \in CandleChanges :
                  History'[Len(History')] =
                     GenerateCandle(FirstAsset, History[Len(History)].close,
                                    change, now)]_vars

\* two updates have evicted the two oldest candles of a history whose
\* candles differ, and put two candles that differ at its end
C35_Witness ==
    /\ dataEngine.updates = 2
    /\ History[1].close # History[2].close
    /\ History[HistoryCapacity - 1].close # History[HistoryCapacity].close
    /\ History[HistoryCapacity - 2].close # History[HistoryCapacity - 1].close

\* the changes of close over the 14 candles the RSI reads
RsiWindow == (Len(History) - 13) .. Len(History)
CloseChange(i) == History[i].close - History[i - 1].close

RECURSIVE SumOfChanges(_)
SumOfChanges(indices) ==
    IF indices = {} THEN 0
    ELSE LET i == CHOOSE j \in indices : TRUE
         IN  CloseChange(i) + SumOfChanges(indices \ {i})

\* C36: the RSI computed from a candle history with non-negative closes is
\* within [0, 100]; it is 100 when no close of its window is below the close
\* before it (a window of equal closes included), and otherwise it is
\* 100 - 100 / (1 + avgGain / avgLoss), which is 100 * gains / (gains +
\* losses), here to the nearest hundredth of a point.
C36_RsiRange ==
    LET rsi == dataEngine.indicators.rsi
        rises == {i \in RsiWindow : CloseChange(i) > 0}
        falls == {i \in RsiWindow : CloseChange(i) < 0}
        gains == SumOfChanges(rises)
        losses == 0 - SumOfChanges(falls)
        off == rsi * (gains + losses) - 10000 * gains
    IN  Constructed =>
          /\ \A i \in 1..Len(History) : History[i].close >= 0
          /\ rsi >= 0 /\ rsi <= 10000
          /\ falls = {} => rsi = 10000
          /\ falls # {} => /\ 2 * off <= gains + losses
                           /\ 0 - 2 * off <= gains + losses

\* after three updates, two of which raised the close and one of which
\* lowered it by as much, the RSI is 66.67
C36_Witness ==
    /\ dataEngine.updates = 3
    /\ Cardinality({i \in RsiWindow : CloseChange(i) > 0}) = 2
    /\ Cardinality({i \in RsiWindow : CloseChange(i) < 0}) = 1
    /\ dataEngine.indicators.rsi = 6667

\* C37: getPriceHistory(symbol, n) returns, for every n >= 0, the last
\* min(n, length) candles of the history, oldest first.
C37_MostRecent ==
    [][CallGetPriceHistory =>
          LET n == dataEngine.count'
              k == IF n < Len(History) THEN n ELSE Len(History)
          IN  /\ Len(dataEngine.returned') = k
              /\ dataEngine.returned' =
                    SubSeq(History, Len(History) - k + 1, Len(History))]_vars

\* C38: when a cycle opens a position, the engine is running, trading is
\* enabled, there are fewer than 3 consecutive losses, the daily drawdown
\* is above -3 % and the monthly one above -12 %, the RSI of the asset is
\* within [30, 70], its current volume is at least half its average volume,
\* and the fear/greed index is within [20, 80].
C38_OpenedUnderSafeConditions ==
    [][(pc \in Levels /\ Len(positions') > Len(positions)) =>
          LET ind == indicators[cyc.asset]
          IN  /\ isRunning
              /\ tradingEnabled
              /\ consecutiveLosses < 3
              /\ Gt(GetDailyDrawdown, DailyLossLimit)
              /\ Gt(GetMonthlyDrawdown, MaxDrawdownAlert)
              /\ ind.rsi >= 30 /\ ind.rsi <= 70
              /\ 2 * ind.currentVolume >= ind.avgVolume
              /\ fearGreedIndex >= 20 /\ fearGreedIndex <= 80]_vars

\* the sum of finalPnl over the first n closed trades
RECURSIVE SumFinalPnl(_, _)
SumFinalPnl(trades, n) ==
    IF n = 0 THEN 0 ELSE Add(SumFinalPnl(trades, n - 1), trades[n].finalPnl)

\* the sum of size * 0.5 * 0.005 over those of the first n entries of a
\* list of positions or closed trades whose tp1Hit is set
RECURSIVE SumTp1Taken(_, _)
SumTp1Taken(entries, n) ==
    IF n = 0 THEN 0
    ELSE Add(SumTp1Taken(entries, n - 1),
             IF entries[n].tp1Hit THEN Tp1Profit(entries[n].size) ELSE 0)

\* C39: while positions close by TP2 or SL only, the balance is the initial
\* balance plus the finalPnl of every closed trade plus size * 0.5 * 0.005
\* for every position, open or closed, whose tp1Hit is set; every trade
\* closed with reason TP2 has tp1Hit set.
C39_BalanceAccounted ==
    /\ currentBalance =
          Add(Add(InitialBalance, SumFinalPnl(closedTrades, Len(closedTrades))),
              Add(SumTp1Taken(closedTrades, Len(closedTrades)),
                  SumTp1Taken(positions, Len(positions))))
    /\ \A i \in 1..Len(closedTrades) :
          /\ closedTrades[i].closeReason \in {"TP2", "SL"}
          /\ closedTrades[i].closeReason = "TP2" => closedTrades[i].tp1Hit

\* one trade has closed at its tp2 and one at its stop-loss with a loss,
\* and an open position has taken its tp1 profit
C39_Witness ==
    /\ \E i \in 1..Len(closedTrades) : closedTrades[i].closeReason = "TP2"
    /\ \E i \in 1..Len(closedTrades) :
          /\ closedTrades[i].closeReason = "SL"
          /\ closedTrades[i].finalPnl < 0
    /\ \E i \in 1..Len(positions) : positions[i].tp1Hit

\* C40: the analysisState a cycle leaves is that cycle's only: when it ends
\* rejected at level k, every level after k is 'waiting', none keeping the
\* 'passed' or 'failed' of an earlier cycle; and the reset an approval
\* schedules does not fire while a cycle is between its first and its last
\* level.
C40_StateOfThisCycleOnly ==
    [][/\ (pc \in Levels /\ result'.kind = "rejected") =>
             \A k \in 1..4 :
                k > result'.level =>
                   analysisState'[LevelName(k)] = "waiting"
       /\ ResetTimerFires => pc \notin Levels]_vars

====
